---- MODULE Spec2Model ----
(***************************************************************************)
(* VOICE-CMD backend: the command interpretation and security-gating       *)
(* pipeline (parseCommand, isCommandSafe, FileOperations, executeCommand,  *)
(* executeShellCommand, POST /command).                                    *)
(*                                                                         *)
(* A JavaScript string is a sequence of one-character strings, so that     *)
(* trim, toLowerCase, includes, split and the regular expressions are      *)
(* computed character by character.  A backtick and every code point       *)
(* outside ASCII is one element written "U+xxxx".  A JavaScript value that *)
(* is not a string is a one-element tuple holding a tag in angle brackets. *)
(***************************************************************************)
EXTENDS Integers, Sequences, FiniteSets, TLC

\* the calls of parseCommand made so far, each with its argument and the value it returned
VARIABLE calls

(***************************************************************************)
(* JavaScript values                                                       *)
(***************************************************************************)
\* an absent property / the value undefined
Undefined == <<"<undefined>">>
\* the value null
Null == <<"<null>">>
\* a non-zero number
Num == <<"<number>">>
\* an object whose conversion to a string throws a TypeError
Obj == <<"<object>">>

NonStrings == {Undefined, Null, Num, Obj}

\* typeof v === 'string'
IsString(v) == v \notin NonStrings

\* !v is false
Truthy(v) == IF IsString(v) THEN Len(v) > 0 ELSE v \in {Num, Obj}

(***************************************************************************)
(* String primitives                                                       *)
(***************************************************************************)
UpperLetters == <<"A","B","C","D","E","F","G","H","I","J","K","L","M","N","O","P","Q","R","S","T","U","V","W","X","Y","Z">>
LowerLetters == <<"a","b","c","d","e","f","g","h","i","j","k","l","m","n","o","p","q","r","s","t","u","v","w","x","y","z">>

ToLowerChar(c) ==
    IF \E i \in 1..26 : UpperLetters[i] = c
    THEN LowerLetters[CHOOSE i \in 1..26 : UpperLetters[i] = c]
    ELSE c

ToUpperChar(c) ==
    IF \E i \in 1..26 : LowerLetters[i] = c
    THEN UpperLetters[CHOOSE i \in 1..26 : LowerLetters[i] = c]
    ELSE c

\* String.prototype.toLowerCase
ToLowerCase(s) == [i \in 1..Len(s) |-> ToLowerChar(s[i])]

\* String.prototype.toUpperCase
ToUpperCase(s) == [i \in 1..Len(s) |-> ToUpperChar(s[i])]

\* the characters String.prototype.trim and \s treat as white space
WhiteSpace == {" ", "\t", "\n", "\r"}

\* the line terminators, which . does not match
LineTerminators == {"\n", "\r"}

Digits == {"0","1","2","3","4","5","6","7","8","9"}

\* String.prototype.trim
Trim(s) ==
    LET keep == {i \in 1..Len(s) : s[i] \notin WhiteSpace}
    IN  IF keep = {} THEN <<>>
        ELSE LET lo == CHOOSE i \in keep : \A j \in keep : i <= j
                 hi == CHOOSE i \in keep : \A j \in keep : i >= j
             IN  SubSeq(s, lo, hi)

\* s has sub at position i
HasAt(s, i, sub) ==
    /\ i >= 1
    /\ i + Len(sub) - 1 <= Len(s)
    /\ \A j \in 1..Len(sub) : s[i + j - 1] = sub[j]

\* String.prototype.includes
Includes(s, sub) == \E i \in 1..(Len(s) - Len(sub) + 1) : HasAt(s, i, sub)

\* s.split(' ')[0]
FirstWord(s) ==
    LET sp == {i \in 1..Len(s) : s[i] = " "}
    IN  IF sp = {} THEN s
        ELSE SubSeq(s, 1, (CHOOSE i \in sp : \A j \in sp : i <= j) - 1)

\* Array.prototype.includes on an array of strings
ArrayIncludes(arr, x) == \E i \in 1..Len(arr) : arr[i] = x

\* Array.prototype.join
RECURSIVE Join(_, _)
Join(arr, sep) ==
    IF Len(arr) = 0 THEN <<>>
    ELSE IF Len(arr) = 1 THEN arr[1]
    ELSE arr[1] \o sep \o Join(Tail(arr), sep)

(***************************************************************************)
(* Regular expressions.  A pattern is a sequence of elements: a literal, a *)
(* repeated character class ("rep", optionally a capture group; many says  *)
(* that the repetition has no upper limit, otherwise the limit is one), or *)
(* an alternation of literals.  MatchesAt and CapturesAt follow the        *)
(* backtracking order of the JavaScript engine: a greedy repetition takes  *)
(* the longest run that lets the rest match, a lazy one the shortest, and  *)
(* the match starts at the leftmost position that has one.                 *)
(***************************************************************************)
Lit(s) == [k |-> "lit", s |-> s, cls |-> "", min |-> 0, many |-> FALSE, lazy |-> FALSE, cap |-> FALSE, alts |-> <<>>]
Rep(cls, min, many) == [k |-> "rep", s |-> <<>>, cls |-> cls, min |-> min, many |-> many, lazy |-> FALSE, cap |-> FALSE, alts |-> <<>>]
Cap(cls, lazy) == [k |-> "rep", s |-> <<>>, cls |-> cls, min |-> 1, many |-> TRUE, lazy |-> lazy, cap |-> TRUE, alts |-> <<>>]
Alt(alts) == [k |-> "alt", s |-> <<>>, cls |-> "", min |-> 0, many |-> FALSE, lazy |-> FALSE, cap |-> FALSE, alts |-> alts]

\* \s+
WS1 == Rep("ws", 1, TRUE)

InClass(c, cls) ==
    CASE cls = "ws"    -> c \in WhiteSpace
      [] cls = "nonws" -> c \notin WhiteSpace
      [] cls = "any"   -> c \notin LineTerminators
      [] cls = "digit" -> c \in Digits
      [] cls = "quote" -> c \in {"'", "\""}
      [] cls = "f"     -> c = "f"

\* a literal at position i, compared without case under the i flag
LitAt(s, i, lit, ci) ==
    IF ci THEN HasAt(ToLowerCase(s), i, ToLowerCase(lit)) ELSE HasAt(s, i, lit)

\* the run lengths a repetition may take at position i
RunLengths(e, s, i) ==
    {n \in e.min..(Len(s) - i + 1) :
        /\ (e.many \/ n <= 1)
        /\ \A j \in i..(i + n - 1) : InClass(s[j], e.cls)}

RECURSIVE MatchesAt(_, _, _, _, _)
MatchesAt(re, k, s, i, ci) ==
    IF k > Len(re) THEN TRUE
    ELSE LET e == re[k] IN
         CASE e.k = "lit" -> LitAt(s, i, e.s, ci) /\ MatchesAt(re, k + 1, s, i + Len(e.s), ci)
           [] e.k = "alt" -> \E a \in 1..Len(e.alts) :
                                LitAt(s, i, e.alts[a], ci) /\ MatchesAt(re, k + 1, s, i + Len(e.alts[a]), ci)
           [] e.k = "rep" -> \E n \in RunLengths(e, s, i) : MatchesAt(re, k + 1, s, i + n, ci)

RECURSIVE CapturesAt(_, _, _, _, _)
CapturesAt(re, k, s, i, ci) ==
    IF k > Len(re) THEN <<>>
    ELSE LET e == re[k] IN
         CASE e.k = "lit" -> CapturesAt(re, k + 1, s, i + Len(e.s), ci)
           [] e.k = "alt" ->
                LET a == CHOOSE a \in 1..Len(e.alts) :
                            /\ LitAt(s, i, e.alts[a], ci) /\ MatchesAt(re, k + 1, s, i + Len(e.alts[a]), ci)
                            /\ \A b \in 1..(a - 1) :
                                  ~(LitAt(s, i, e.alts[b], ci) /\ MatchesAt(re, k + 1, s, i + Len(e.alts[b]), ci))
                IN  CapturesAt(re, k + 1, s, i + Len(e.alts[a]), ci)
           [] e.k = "rep" ->
                LET ok == {n \in RunLengths(e, s, i) : MatchesAt(re, k + 1, s, i + n, ci)}
                    n  == IF e.lazy THEN CHOOSE n \in ok : \A m \in ok : n <= m
                                    ELSE CHOOSE n \in ok : \A m \in ok : n >= m
                IN  (IF e.cap THEN <<SubSeq(s, i, i + n - 1)>> ELSE <<>>)
                        \o CapturesAt(re, k + 1, s, i + n, ci)

\* RegExp.prototype.test
Test(re, s, ci) == \E i \in 1..(Len(s) + 1) : MatchesAt(re, 1, s, i, ci)

\* String.prototype.match: the capture groups of the leftmost match
Match(re, s, ci) ==
    LET starts == {i \in 1..(Len(s) + 1) : MatchesAt(re, 1, s, i, ci)}
        i0 == CHOOSE i \in starts : \A j \in starts : i <= j
    IN  CapturesAt(re, 1, s, i0, ci)

(***************************************************************************)
(* utils/security.js                                                       *)
(***************************************************************************)
allowedCommands == <<
    <<"m","k","d","i","r">>, <<"t","o","u","c","h">>, <<"l","s">>, <<"c","p">>, <<"m","v">>, <<"c","a","t">>, <<"h","e","a","d">>, <<"t","a","i","l">>, <<"g","r","e","p">>, <<"f","i","n","d">>,
    <<"c","h","m","o","d">>, <<"c","h","o","w","n">>, <<"t","a","r">>, <<"z","i","p">>, <<"u","n","z","i","p">>, <<"g","z","i","p">>, <<"g","u","n","z","i","p">>,
    <<"n","a","n","o">>, <<"v","i","m">>, <<"v","i">>, <<"e","m","a","c","s">>,
    <<"p","w","d">>, <<"w","h","o","a","m","i">>, <<"u","n","a","m","e">>, <<"d","f">>, <<"d","u">>, <<"f","r","e","e">>, <<"u","p","t","i","m","e">>, <<"p","s">>, <<"t","o","p">>, <<"h","t","o","p">>,
    <<"p","i","n","g">>, <<"c","u","r","l">>, <<"w","g","e","t">>, <<"s","s","h">>, <<"s","c","p">>,
    <<"g","i","t">>, <<"n","p","m">>, <<"n","o","d","e">>, <<"p","y","t","h","o","n">>, <<"p","y","t","h","o","n","3">>, <<"g","c","c">>, <<"g","+","+">>, <<"m","a","k","e">>,
    <<"e","c","h","o">>, <<"d","a","t","e">>, <<"c","a","l">>, <<"w","h","i","c","h">>, <<"w","h","e","r","e","i","s">>, <<"m","a","n">>, <<"i","n","f","o">>, <<"h","e","l","p">> >>

blockedCommands == <<
    <<"r","m"," ","-","r","f">>, <<"r","m"," ","-","r">>, <<"r","m"," ","-","f">>, <<"s","h","u","t","d","o","w","n">>, <<"r","e","b","o","o","t">>, <<"h","a","l","t">>, <<"p","o","w","e","r","o","f","f">>,
    <<"i","n","i","t"," ","0">>, <<"i","n","i","t"," ","6">>, <<"s","y","s","t","e","m","c","t","l"," ","p","o","w","e","r","o","f","f">>, <<"s","y","s","t","e","m","c","t","l"," ","r","e","b","o","o","t">>,
    <<"c","h","m","o","d"," ","7","7","7"," ","/">>, <<"c","h","m","o","d"," ","7","7","7"," ","/","e","t","c">>, <<"c","h","m","o","d"," ","7","7","7"," ","/","r","o","o","t">>, <<"c","h","m","o","d"," ","7","7","7"," ","/","h","o","m","e">>,
    <<"c","h","o","w","n"," ","r","o","o","t",":">>, <<"c","h","o","w","n"," ","r","o","o","t"," ","/">>, <<"c","h","o","w","n"," ","r","o","o","t"," ","/","e","t","c">>,
    <<"k","i","l","l"," ","-","9"," ","1">>, <<"k","i","l","l","a","l","l">>, <<"p","k","i","l","l"," ","-","f"," ","s","y","s","t","e","m","d">>, <<"k","i","l","l","a","l","l"," ","s","y","s","t","e","m","d">>,
    <<"n","m","a","p">>, <<"n","m","a","p"," ","-","s","S">>, <<"n","m","a","p"," ","-","O">>, <<"n","e","t","c","a","t">>, <<"n","c"," ","-","l">>, <<"n","c"," ","-","e">>,
    <<"d","d"," ","i","f","=","/","d","e","v","/","z","e","r","o">>, <<"d","d"," ","o","f","=","/","d","e","v","/","s","d","a">>, <<"m","k","f","s">>, <<"f","d","i","s","k">>, <<"p","a","r","t","e","d">>,
    <<"f","o","r","m","a","t">>, <<"w","i","p","e","f","s">>, <<"b","a","d","b","l","o","c","k","s">>,
    <<"s","u","d","o"," ","s","u">>, <<"s","u","d","o"," ","-","i">>, <<"s","u"," ","-">>, <<"s","u"," ","r","o","o","t">>, <<"p","a","s","s","w","d"," ","r","o","o","t">>,
    <<">"," ","/","d","e","v","/","s","d","a">>, <<">"," ","/","e","t","c","/","p","a","s","s","w","d">>, <<">"," ","/","e","t","c","/","s","h","a","d","o","w">>, <<">",">"," ","/","e","t","c","/","p","a","s","s","w","d">>,
    <<"b","a","s","h"," ","-","c">>, <<"s","h"," ","-","c">>, <<"e","v","a","l">>, <<"e","x","e","c">>, <<"s","o","u","r","c","e"," ","/","d","e","v","/","s","t","d","i","n">> >>

\* the regular expressions of blockedPatterns, none of them with the i flag
blockedPatterns == <<
    << Lit(<<"r","m">>), WS1, Lit(<<"-","r">>), Rep("f", 0, FALSE), WS1, Lit(<<"/">>) >>,
    << Lit(<<"c","h","m","o","d">>), WS1, Lit(<<"7","7","7">>), WS1, Lit(<<"/">>) >>,
    << Lit(<<"c","h","o","w","n">>), WS1, Lit(<<"r","o","o","t">>), WS1, Lit(<<"/">>) >>,
    << Lit(<<"d","d">>), WS1, Lit(<<"i","f","=">>), Rep("any", 0, TRUE), Lit(<<"o","f","=","/","d","e","v">>) >>,
    << Lit(<<"s","u","d","o">>), WS1, Alt(<< <<"s","u">>, <<"p","a","s","s","w","d">>, <<"v","i","s","u","d","o">> >>) >>,
    << Lit(<<"k","i","l","l">>), WS1, Lit(<<"-","9">>), WS1, Rep("digit", 1, TRUE) >>,
    << Lit(<<">">>), Rep("any", 0, TRUE), Lit(<<"/","e","t","c","/">>), Alt(<< <<"p","a","s","s","w","d">>, <<"s","h","a","d","o","w">>, <<"h","o","s","t","s">> >>) >>,
    << Lit(<<"b","a","s","h">>), WS1, Lit(<<"-","c">>), WS1, Rep("quote", 1, FALSE) >>,
    << Lit(<<"e","v","a","l">>), WS1 >>,
    << Lit(<<"e","x","e","c">>), WS1 >>,
    << Lit(<<"s","o","u","r","c","e">>), WS1, Lit(<<"/","d","e","v","/","s","t","d","i","n">>) >> >>

\* RegExp.prototype.toString of each pattern
blockedPatternText == <<
    <<"/","r","m","\\","s","+","-","r","f","?","\\","s","+","\\","/","/">>,
    <<"/","c","h","m","o","d","\\","s","+","7","7","7","\\","s","+","\\","/","/">>,
    <<"/","c","h","o","w","n","\\","s","+","r","o","o","t","\\","s","+","\\","/","/">>,
    <<"/","d","d","\\","s","+","i","f","=",".","*","o","f","=","\\","/","d","e","v","/">>,
    <<"/","s","u","d","o","\\","s","+","(","s","u","|","p","a","s","s","w","d","|","v","i","s","u","d","o",")","/">>,
    <<"/","k","i","l","l","\\","s","+","-","9","\\","s","+","[","0","-","9","]","+","/">>,
    <<"/",">",".","*","\\","/","e","t","c","\\","/","(","p","a","s","s","w","d","|","s","h","a","d","o","w","|","h","o","s","t","s",")","/">>,
    <<"/","b","a","s","h","\\","s","+","-","c","\\","s","+","[","'","\"","]","/">>,
    <<"/","e","v","a","l","\\","s","+","/">>,
    <<"/","e","x","e","c","\\","s","+","/">>,
    <<"/","s","o","u","r","c","e","\\","s","+","\\","/","d","e","v","\\","/","s","t","d","i","n","/">> >>

\* the result object of isCommandSafe
Verdict(safe, reason, pattern, suggestion) ==
    [safe |-> safe, reason |-> reason, blocked |-> ~safe, pattern |-> pattern, suggestion |-> suggestion]

\* the indexes of the denylist literals the lower-cased command contains
BlockedLiteralHits(trimmedCommand) ==
    {i \in 1..Len(blockedCommands) : Includes(trimmedCommand, ToLowerCase(blockedCommands[i]))}

\* the indexes of the denylist patterns that match the command as given
BlockedPatternHits(command) ==
    {i \in 1..Len(blockedPatterns) : Test(blockedPatterns[i], command, FALSE)}

\* trimmedCommand.split(' ')[0]
BaseCommand(trimmedCommand) == FirstWord(trimmedCommand)

\* allowedCommands.includes(baseCommand)
InAllowlist_Any(baseCommand) == TRUE

InAllowlist(baseCommand) == ArrayIncludes(allowedCommands, baseCommand)

\* the suggestion of the allowlist rejection
AllowlistSuggestion ==
    <<"T","r","y"," ","o","n","e"," ","o","f"," ","t","h","e","s","e",":"," ">> \o Join(SubSeq(allowedCommands, 1, 5), <<","," ">>) \o <<".",".",".">>

\* the command chaining test
HasChaining_NoSemicolon(trimmedCommand) ==
    \/ Includes(trimmedCommand, <<"&","&">>)
    \/ Includes(trimmedCommand, <<"|","|">>)

HasChaining(trimmedCommand) ==
    \/ Includes(trimmedCommand, <<"&","&">>)
    \/ Includes(trimmedCommand, <<"|","|">>)
    \/ Includes(trimmedCommand, <<";">>)

\* the command substitution test
HasSubstitution(trimmedCommand) ==
    \/ Includes(trimmedCommand, <<"$","(">>)
    \/ Includes(trimmedCommand, <<"U+0060">>)

Least(S) == CHOOSE i \in S : \A j \in S : i <= j

isCommandSafe(command) ==
    IF ~Truthy(command) \/ ~IsString(command)
    THEN Verdict(FALSE, <<"I","n","v","a","l","i","d"," ","c","o","m","m","a","n","d"," ","f","o","r","m","a","t">>, Undefined, Undefined)
    ELSE
    LET trimmedCommand == ToLowerCase(Trim(command))
        lits == BlockedLiteralHits(trimmedCommand)
        pats == BlockedPatternHits(command)
        baseCommand == BaseCommand(trimmedCommand)
    IN  IF lits # {}
        THEN LET blocked == blockedCommands[Least(lits)]
             IN  Verdict(FALSE, <<"C","o","m","m","a","n","d"," ","c","o","n","t","a","i","n","s"," ","b","l","o","c","k","e","d"," ","p","a","t","t","e","r","n",":"," ","\"">> \o blocked \o <<"\"">>, blocked, Undefined)
        ELSE IF pats # {}
        THEN LET text == blockedPatternText[Least(pats)]
             IN  Verdict(FALSE, <<"C","o","m","m","a","n","d"," ","m","a","t","c","h","e","s"," ","b","l","o","c","k","e","d"," ","p","a","t","t","e","r","n",":"," ">> \o text, text, Undefined)
        ELSE IF ~InAllowlist(baseCommand)
        THEN Verdict(FALSE, <<"C","o","m","m","a","n","d"," ","\"">> \o baseCommand \o <<"\""," ","n","o","t"," ","i","n"," ","a","l","l","o","w","l","i","s","t">>, Undefined, AllowlistSuggestion)
        ELSE IF HasChaining(trimmedCommand)
        THEN Verdict(FALSE, <<"C","o","m","m","a","n","d"," ","c","h","a","i","n","i","n","g"," ","n","o","t"," ","a","l","l","o","w","e","d"," ","f","o","r"," ","s","e","c","u","r","i","t","y">>, Undefined, Undefined)
        ELSE IF HasSubstitution(trimmedCommand)
        THEN Verdict(FALSE, <<"C","o","m","m","a","n","d"," ","s","u","b","s","t","i","t","u","t","i","o","n"," ","n","o","t"," ","a","l","l","o","w","e","d"," ","f","o","r"," ","s","e","c","u","r","i","t","y">>, Undefined, Undefined)
        ELSE Verdict(TRUE, <<"C","o","m","m","a","n","d"," ","i","s"," ","s","a","f","e">>, Undefined, Undefined)

(***************************************************************************)
(* utils/commandParser.js                                                  *)
(***************************************************************************)
\* a value that has not been computed yet
Nothing == [tag |-> "nothing"]

\* the pattern tables: every regular expression carries the i flag
memoryOpPatterns == <<
    [regex |-> << Lit(<<"r","e","m","e","m","b","e","r">>), WS1, Cap("any", TRUE), WS1, Lit(<<"i","s">>), WS1, Cap("any", FALSE) >>,
     type |-> "memoryOp", fn |-> "saveMemory", args |-> "trim"],
    [regex |-> << Lit(<<"r","e","m","e","m","b","e","r">>), WS1, Cap("any", FALSE) >>,
     type |-> "memoryOp", fn |-> "saveMemory", args |-> "trimTrue"],
    [regex |-> << Lit(<<"r","e","c","a","l","l">>), WS1, Cap("any", FALSE) >>,
     type |-> "memoryOp", fn |-> "getMemory", args |-> "trim"],
    [regex |-> << Lit(<<"s","h","o","w">>), WS1, Lit(<<"m","e","m","o","r","y">>) >>,
     type |-> "memoryOp", fn |-> "getAllMemory", args |-> "none"],
    [regex |-> << Lit(<<"c","l","e","a","r">>), WS1, Lit(<<"m","e","m","o","r","y">>) >>,
     type |-> "memoryOp", fn |-> "clearMemory", args |-> "none"],
    [regex |-> << Lit(<<"s","e","a","r","c","h">>), WS1, Lit(<<"m","e","m","o","r","y">>), WS1, Cap("any", FALSE) >>,
     type |-> "memoryOp", fn |-> "searchMemory", args |-> "trim"],
    [regex |-> << Lit(<<"m","e","m","o","r","y">>), WS1, Lit(<<"s","t","a","t","s">>) >>,
     type |-> "memoryOp", fn |-> "getMemoryStats", args |-> "none"],
    [regex |-> << Lit(<<"c","o","m","m","a","n","d">>), WS1, Lit(<<"h","i","s","t","o","r","y">>) >>,
     type |-> "memoryOp", fn |-> "getCommandHistory", args |-> "none"] >>

fileOpPatterns == <<
    [regex |-> << Lit(<<"c","r","e","a","t","e">>), WS1, Lit(<<"f","i","l","e">>), WS1, Cap("nonws", FALSE) >>,
     type |-> "fileOp", fn |-> "createFile", args |-> "raw"],
    [regex |-> << Lit(<<"c","r","e","a","t","e">>), WS1, Lit(<<"a">>), WS1, Lit(<<"f","i","l","e">>), WS1, Cap("nonws", FALSE) >>,
     type |-> "fileOp", fn |-> "createFile", args |-> "raw"],
    [regex |-> << Lit(<<"c","r","e","a","t","e">>), WS1, Lit(<<"d","i","r","e","c","t","o","r","y">>), WS1, Cap("nonws", FALSE) >>,
     type |-> "fileOp", fn |-> "createDirectory", args |-> "raw"],
    [regex |-> << Lit(<<"c","r","e","a","t","e">>), WS1, Lit(<<"a">>), WS1, Lit(<<"d","i","r","e","c","t","o","r","y">>), WS1, Cap("nonws", FALSE) >>,
     type |-> "fileOp", fn |-> "createDirectory", args |-> "raw"],
    [regex |-> << Lit(<<"m","a","k","e">>), WS1, Lit(<<"d","i","r","e","c","t","o","r","y">>), WS1, Cap("nonws", FALSE) >>,
     type |-> "fileOp", fn |-> "createDirectory", args |-> "raw"],
    [regex |-> << Lit(<<"m","k","d","i","r">>), WS1, Cap("nonws", FALSE) >>,
     type |-> "fileOp", fn |-> "createDirectory", args |-> "raw"],
    [regex |-> << Lit(<<"d","e","l","e","t","e">>), WS1, Lit(<<"f","i","l","e">>), WS1, Cap("nonws", FALSE) >>,
     type |-> "fileOp", fn |-> "deleteFile", args |-> "raw"],
    [regex |-> << Lit(<<"c","o","p","y">>), WS1, Lit(<<"f","i","l","e">>), WS1, Cap("nonws", FALSE), WS1, Lit(<<"t","o">>), WS1, Cap("nonws", FALSE) >>,
     type |-> "fileOp", fn |-> "copyFile", args |-> "raw"],
    [regex |-> << Lit(<<"m","o","v","e">>), WS1, Lit(<<"f","i","l","e">>), WS1, Cap("nonws", FALSE), WS1, Lit(<<"t","o">>), WS1, Cap("nonws", FALSE) >>,
     type |-> "fileOp", fn |-> "moveFile", args |-> "raw"],
    [regex |-> << Lit(<<"l","i","s","t">>), WS1, Lit(<<"f","i","l","e","s">>) >>,
     type |-> "fileOp", fn |-> "listFiles", args |-> "none"] >>

\* pattern.args(match)
PatternArgs(pattern, match) ==
    CASE pattern.args = "trim"     -> [i \in 1..Len(match) |-> Trim(match[i])]
      [] pattern.args = "trimTrue" -> << Trim(match[1]), <<"t","r","u","e">> >>
      [] pattern.args = "raw"      -> match
      [] pattern.args = "none"     -> << >>

\* the first pattern of a table that matches, 0 when none does
FirstMatch(patterns, input) ==
    LET hits == {i \in 1..Len(patterns) : Test(patterns[i].regex, input, TRUE)}
    IN  IF hits = {} THEN 0 ELSE Least(hits)

PatternResult(pattern, input) ==
    [type |-> pattern.type, fn |-> pattern.fn,
     args |-> PatternArgs(pattern, Match(pattern.regex, input, TRUE)),
     originalInput |-> input]

\* parseCommand with pattern objects that outlive the call and carry the g flag:
\* a pattern that matched this input in an earlier call resumes behind its match
parseCommand_Sticky(input) ==
    IF ~Truthy(input) \/ ~IsString(input)
    THEN [type |-> "error", error |-> <<"I","n","v","a","l","i","d"," ","i","n","p","u","t",":"," ","c","o","m","m","a","n","d"," ","m","u","s","t"," ","b","e"," ","a"," ","n","o","n","-","e","m","p","t","y"," ","s","t","r","i","n","g">>]
    ELSE LET resumed == \E i \in 1..Len(calls) :
                            calls[i].input = input /\ calls[i].parseResult.type \in {"memoryOp", "fileOp"}
             m == IF resumed THEN 0 ELSE FirstMatch(memoryOpPatterns, input)
             f == IF resumed THEN 0 ELSE FirstMatch(fileOpPatterns, input)
         IN  IF m # 0 THEN PatternResult(memoryOpPatterns[m], input)
             ELSE IF f # 0 THEN PatternResult(fileOpPatterns[f], input)
             ELSE [type |-> "shell", command |-> input, originalInput |-> input]

\* parseCommand with the test of the trimmed input, which rejects blank strings also
parseCommand_RejectsBlank(input) ==
    IF ~IsString(input) \/ ~Truthy(Trim(input))
    THEN [type |-> "error", error |-> <<"I","n","v","a","l","i","d"," ","i","n","p","u","t",":"," ","c","o","m","m","a","n","d"," ","m","u","s","t"," ","b","e"," ","a"," ","n","o","n","-","e","m","p","t","y"," ","s","t","r","i","n","g">>]
    ELSE LET m == FirstMatch(memoryOpPatterns, input)
             f == FirstMatch(fileOpPatterns, input)
         IN  IF m # 0 THEN PatternResult(memoryOpPatterns[m], input)
             ELSE IF f # 0 THEN PatternResult(fileOpPatterns[f], input)
             ELSE [type |-> "shell", command |-> input, originalInput |-> input]

\* parseCommand with the file patterns tried before the memory patterns
parseCommand_FileFirst(input) ==
    IF ~Truthy(input) \/ ~IsString(input)
    THEN [type |-> "error", error |-> <<"I","n","v","a","l","i","d"," ","i","n","p","u","t",":"," ","c","o","m","m","a","n","d"," ","m","u","s","t"," ","b","e"," ","a"," ","n","o","n","-","e","m","p","t","y"," ","s","t","r","i","n","g">>]
    ELSE LET m == FirstMatch(memoryOpPatterns, input)
             f == FirstMatch(fileOpPatterns, input)
         IN  IF f # 0 THEN PatternResult(fileOpPatterns[f], input)
             ELSE IF m # 0 THEN PatternResult(memoryOpPatterns[m], input)
             ELSE [type |-> "shell", command |-> input, originalInput |-> input]

parseCommand(input) ==
    IF ~Truthy(input) \/ ~IsString(input)
    THEN [type |-> "error", error |-> <<"I","n","v","a","l","i","d"," ","i","n","p","u","t",":"," ","c","o","m","m","a","n","d"," ","m","u","s","t"," ","b","e"," ","a"," ","n","o","n","-","e","m","p","t","y"," ","s","t","r","i","n","g">>]
    ELSE LET m == FirstMatch(memoryOpPatterns, input)
             f == FirstMatch(fileOpPatterns, input)
         IN  IF m # 0 THEN PatternResult(memoryOpPatterns[m], input)
             ELSE IF f # 0 THEN PatternResult(fileOpPatterns[f], input)
             ELSE [type |-> "shell", command |-> input, originalInput |-> input]

(***************************************************************************)
(* The file system.  A path is the sequence of its components below "/",   *)
(* as path.resolve returns it; the file system maps every existing path to *)
(* a directory or to a file with its content.                              *)
(***************************************************************************)
\* os.homedir()
HomeDir == << <<"h","o","m","e">>, <<"u","s","e","r">> >>

\* WORKING_DIR, PROJECT_ROOT: path.join(os.homedir(), 'Desktop', 'VOICE-CMD')
WORKING_DIR == HomeDir \o << <<"D","e","s","k","t","o","p">>, <<"V","O","I","C","E","-","C","M","D">> >>

\* s.split(sep) for a one-character separator
RECURSIVE SplitOn(_, _)
SplitOn(s, sep) ==
    LET at == {i \in 1..Len(s) : s[i] = sep}
    IN  IF at = {} THEN << s >>
        ELSE LET i == Least(at)
             IN  << SubSeq(s, 1, i - 1) >> \o SplitOn(SubSeq(s, i + 1, Len(s)), sep)

\* the normalisation of path.resolve: "" and "." are dropped, ".." steps up and stays at "/"
RECURSIVE Normalize(_, _)
Normalize(acc, comps) ==
    IF comps = << >> THEN acc
    ELSE LET c == Head(comps)
             next == IF c = <<>> \/ c = <<".">> THEN acc
                     ELSE IF c = <<".",".">> THEN (IF acc = << >> THEN acc ELSE SubSeq(acc, 1, Len(acc) - 1))
                     ELSE Append(acc, c)
         IN  Normalize(next, Tail(comps))

\* path.resolve(base, p) for an absolute base
PathResolve(base, p) ==
    Normalize(IF Len(p) > 0 /\ p[1] = "/" THEN << >> ELSE base, SplitOn(p, "/"))

\* path.dirname of a resolved path
Dirname(p) == IF p = << >> THEN p ELSE SubSeq(p, 1, Len(p) - 1)

\* path.basename of a resolved path
Basename(p) == IF p = << >> THEN <<>> ELSE p[Len(p)]

\* the text of a resolved path
PathText(p) == IF p = << >> THEN <<"/">> ELSE <<"/">> \o Join(p, <<"/">>)

\* the resolved path is the sandbox root or below it
InsideRoot(p) == Len(p) >= Len(WORKING_DIR) /\ SubSeq(p, 1, Len(WORKING_DIR)) = WORKING_DIR

Dir == [type |-> "dir"]
File(content) == [type |-> "file", content |-> content]

Prefixes(p) == {SubSeq(p, 1, n) : n \in 0..Len(p)}

Put(fs, p, v) == [q \in DOMAIN fs \cup {p} |-> IF q = p THEN v ELSE fs[q]]
Remove(fs, p) == [q \in DOMAIN fs \ {p} |-> fs[q]]

\* fs.access succeeds
Exists(fs, p) == p \in DOMAIN fs

\* fs.stat(p).isDirectory()
IsDirectory(fs, p) == fs[p].type = "dir"

\* the outcome of a file system call: the error code ("" when it succeeded) and the file system after it
Outcome(err, fs) == [err |-> err, fs |-> fs]

\* fs.writeFile(p, content); io is the failure the device or the permissions impose, "" for none
FsWriteFile(fs, p, content, io) ==
    IF io # "" THEN Outcome(io, fs)
    ELSE IF Exists(fs, p) /\ IsDirectory(fs, p) THEN Outcome("EISDIR", fs)
    ELSE IF ~Exists(fs, Dirname(p)) THEN Outcome("ENOENT", fs)
    ELSE IF ~IsDirectory(fs, Dirname(p)) THEN Outcome("ENOTDIR", fs)
    ELSE Outcome("", Put(fs, p, File(content)))

\* fs.mkdir(p, { recursive: true })
FsMkdir(fs, p, io) ==
    IF \E q \in Prefixes(p) : Exists(fs, q) /\ ~IsDirectory(fs, q)
    THEN Outcome(IF Exists(fs, p) /\ ~IsDirectory(fs, p) THEN "EEXIST" ELSE "ENOTDIR", fs)
    ELSE IF \A q \in Prefixes(p) : Exists(fs, q) THEN Outcome("", fs)
    ELSE IF io # "" THEN Outcome(io, fs)
    ELSE Outcome("", [q \in DOMAIN fs \cup Prefixes(p) |-> IF q \in DOMAIN fs THEN fs[q] ELSE Dir])

\* fs.unlink(p)
FsUnlink(fs, p, io) ==
    IF io # "" THEN Outcome(io, fs)
    ELSE IF ~Exists(fs, p) THEN Outcome("ENOENT", fs)
    ELSE IF IsDirectory(fs, p) THEN Outcome("EISDIR", fs)
    ELSE Outcome("", Remove(fs, p))

\* fs.copyFile(src, dst): an existing destination file is overwritten
FsCopyFile(fs, src, dst, io) ==
    IF io # "" THEN Outcome(io, fs)
    ELSE IF ~Exists(fs, src) THEN Outcome("ENOENT", fs)
    ELSE IF IsDirectory(fs, src) THEN Outcome("EISDIR", fs)
    ELSE IF Exists(fs, dst) /\ IsDirectory(fs, dst) THEN Outcome("EISDIR", fs)
    ELSE IF ~Exists(fs, Dirname(dst)) THEN Outcome("ENOENT", fs)
    ELSE IF ~IsDirectory(fs, Dirname(dst)) THEN Outcome("ENOTDIR", fs)
    ELSE Outcome("", Put(fs, dst, fs[src]))

\* fs.rename(src, dst) of a file: an existing destination file is replaced
FsRename(fs, src, dst, io) ==
    IF io # "" THEN Outcome(io, fs)
    ELSE IF ~Exists(fs, src) THEN Outcome("ENOENT", fs)
    ELSE IF Exists(fs, dst) /\ IsDirectory(fs, dst) THEN Outcome("EISDIR", fs)
    ELSE IF ~Exists(fs, Dirname(dst)) THEN Outcome("ENOENT", fs)
    ELSE IF ~IsDirectory(fs, Dirname(dst)) THEN Outcome("ENOTDIR", fs)
    ELSE Outcome("", Put(Remove(fs, src), dst, fs[src]))

\* error.message of a failed file system call
ErrorMessage(err) ==
    CASE err = "EACCES"  -> <<"E","A","C","C","E","S",":"," ","p","e","r","m","i","s","s","i","o","n"," ","d","e","n","i","e","d">>
      [] err = "ENOENT"  -> <<"E","N","O","E","N","T",":"," ","n","o"," ","s","u","c","h"," ","f","i","l","e"," ","o","r"," ","d","i","r","e","c","t","o","r","y">>
      [] err = "ENOTDIR" -> <<"E","N","O","T","D","I","R",":"," ","n","o","t"," ","a"," ","d","i","r","e","c","t","o","r","y">>
      [] err = "EISDIR"  -> <<"E","I","S","D","I","R",":"," ","i","l","l","e","g","a","l"," ","o","p","e","r","a","t","i","o","n"," ","o","n"," ","a"," ","d","i","r","e","c","t","o","r","y">>
      [] err = "EEXIST"  -> <<"E","E","X","I","S","T",":"," ","f","i","l","e"," ","a","l","r","e","a","d","y"," ","e","x","i","s","t","s">>
      [] err = "ENOSPC"  -> <<"E","N","O","S","P","C",":"," ","n","o"," ","s","p","a","c","e"," ","l","e","f","t"," ","o","n"," ","d","e","v","i","c","e">>

\* Number.prototype.toString for a natural number
DigitChars == <<"0","1","2","3","4","5","6","7","8","9">>

RECURSIVE NumToStr(_)
NumToStr(n) == IF n < 10 THEN << DigitChars[n + 1] >> ELSE NumToStr(n \div 10) \o << DigitChars[(n % 10) + 1] >>

(***************************************************************************)
(* utils/fileOps.js: class FileOperations.  Every method returns its       *)
(* result object and the file system it leaves.                            *)
(***************************************************************************)
Returns(ret, fs) == [ret |-> ret, fs |-> fs]

createDirectory(workingDir, fs, dirname, io) ==
    LET dirPath == PathResolve(workingDir, dirname) IN
    IF Exists(fs, dirPath) /\ IsDirectory(fs, dirPath)
    THEN Returns([action |-> "Create Directory",
                  result |-> <<"D","i","r","e","c","t","o","r","y"," ","'">> \o dirname \o <<"'"," ","a","l","r","e","a","d","y"," ","e","x","i","s","t","s"," ","U+274C">>,
                  success |-> FALSE, dirname |-> dirname, dirPath |-> dirPath], fs)
    ELSE LET made == FsMkdir(fs, dirPath, io) IN
         IF made.err = ""
         THEN Returns([action |-> "Create Directory",
                       result |-> <<"D","i","r","e","c","t","o","r","y"," ","'">> \o dirname \o <<"'"," ","c","r","e","a","t","e","d"," ","s","u","c","c","e","s","s","f","u","l","l","y"," ","U+2705">>,
                       success |-> TRUE, dirname |-> dirname, dirPath |-> dirPath], made.fs)
         ELSE Returns([action |-> "Create Directory",
                       result |-> <<"F","a","i","l","e","d"," ","t","o"," ","c","r","e","a","t","e"," ","d","i","r","e","c","t","o","r","y"," ","'">> \o dirname \o <<"'",":"," ">> \o ErrorMessage(made.err) \o <<" ","U+274C">>,
                       success |-> FALSE, error |-> ErrorMessage(made.err), dirname |-> dirname], fs)

\* createFile without the check for an existing file
createFile_Truncating(workingDir, fs, filename, io) ==
    LET filePath == PathResolve(workingDir, filename)
        written == FsWriteFile(fs, filePath, <<>>, io)
    IN  IF written.err = ""
        THEN Returns([action |-> "Create File",
                      result |-> <<"F","i","l","e"," ","'">> \o filename \o <<"'"," ","c","r","e","a","t","e","d"," ","s","u","c","c","e","s","s","f","u","l","l","y"," ","U+2705">>,
                      success |-> TRUE, filename |-> filename, filePath |-> filePath], written.fs)
        ELSE Returns([action |-> "Create File",
                      result |-> <<"E","r","r","o","r"," ","c","r","e","a","t","i","n","g"," ","f","i","l","e"," ","'">> \o filename \o <<"'",":"," ">> \o ErrorMessage(written.err) \o <<" ","U+274C">>,
                      success |-> FALSE, filename |-> filename, error |-> ErrorMessage(written.err)], fs)

createFile(workingDir, fs, filename, io) ==
    LET filePath == PathResolve(workingDir, filename) IN
    IF Exists(fs, filePath)
    THEN Returns([action |-> "Create File",
                  result |-> <<"F","i","l","e"," ","'">> \o filename \o <<"'"," ","a","l","r","e","a","d","y"," ","e","x","i","s","t","s"," ","U+274C">>,
                  success |-> FALSE, filename |-> filename, filePath |-> filePath], fs)
    ELSE LET written == FsWriteFile(fs, filePath, <<>>, io) IN
         IF written.err = ""
         THEN Returns([action |-> "Create File",
                       result |-> <<"F","i","l","e"," ","'">> \o filename \o <<"'"," ","c","r","e","a","t","e","d"," ","s","u","c","c","e","s","s","f","u","l","l","y"," ","U+2705">>,
                       success |-> TRUE, filename |-> filename, filePath |-> filePath], written.fs)
         ELSE Returns([action |-> "Create File",
                       result |-> <<"E","r","r","o","r"," ","c","r","e","a","t","i","n","g"," ","f","i","l","e"," ","'">> \o filename \o <<"'",":"," ">> \o ErrorMessage(written.err) \o <<" ","U+274C">>,
                       success |-> FALSE, filename |-> filename, error |-> ErrorMessage(written.err)], fs)

\* deleteFile that reports success without calling fs.unlink
deleteFile_WithoutUnlink(workingDir, fs, filename, io) ==
    LET filePath == PathResolve(workingDir, filename) IN
    IF ~Exists(fs, filePath) \/ IsDirectory(fs, filePath)
    THEN Returns([action |-> "Delete File",
                  result |-> <<"F","i","l","e"," ","'">> \o filename \o <<"'"," ","n","o","t"," ","f","o","u","n","d"," ","U+274C">>,
                  success |-> FALSE, filename |-> filename, filePath |-> filePath], fs)
    ELSE Returns([action |-> "Delete File",
                  result |-> <<"F","i","l","e"," ","'">> \o filename \o <<"'"," ","d","e","l","e","t","e","d"," ","s","u","c","c","e","s","s","f","u","l","l","y"," ","U+2705">>,
                  success |-> TRUE, filename |-> filename, filePath |-> filePath], fs)

deleteFile(workingDir, fs, filename, io) ==
    LET filePath == PathResolve(workingDir, filename) IN
    IF ~Exists(fs, filePath)
    THEN Returns([action |-> "Delete File",
                  result |-> <<"F","i","l","e"," ","'">> \o filename \o <<"'"," ","n","o","t"," ","f","o","u","n","d"," ","U+274C">>,
                  success |-> FALSE, filename |-> filename, filePath |-> filePath], fs)
    ELSE IF IsDirectory(fs, filePath)
    THEN Returns([action |-> "Delete File",
                  result |-> <<"'">> \o filename \o <<"'"," ","i","s"," ","a"," ","d","i","r","e","c","t","o","r","y",","," ","n","o","t"," ","a"," ","f","i","l","e"," ","U+274C">>,
                  success |-> FALSE, filename |-> filename, filePath |-> filePath], fs)
    ELSE LET gone == FsUnlink(fs, filePath, io) IN
         IF gone.err = ""
         THEN Returns([action |-> "Delete File",
                       result |-> <<"F","i","l","e"," ","'">> \o filename \o <<"'"," ","d","e","l","e","t","e","d"," ","s","u","c","c","e","s","s","f","u","l","l","y"," ","U+2705">>,
                       success |-> TRUE, filename |-> filename, filePath |-> filePath], gone.fs)
         ELSE Returns([action |-> "Delete File",
                       result |-> <<"E","r","r","o","r"," ","d","e","l","e","t","i","n","g"," ","f","i","l","e"," ","'">> \o filename \o <<"'",":"," ">> \o ErrorMessage(gone.err) \o <<" ","U+274C">>,
                       success |-> FALSE, filename |-> filename, error |-> ErrorMessage(gone.err)], fs)

\* copyFile without the check for an existing destination
copyFile_Overwrites(workingDir, fs, sourceFilename, destFilename, io) ==
    LET sourcePath == PathResolve(workingDir, sourceFilename)
        destPath == PathResolve(workingDir, destFilename)
        info == [sourceFilename |-> sourceFilename, destFilename |-> destFilename,
                 sourcePath |-> sourcePath, destPath |-> destPath]
        copied == FsCopyFile(fs, sourcePath, destPath, io)
    IN  IF copied.err = ""
        THEN Returns([action |-> "Copy File",
                      result |-> <<"F","i","l","e"," ","'">> \o sourceFilename \o <<"'"," ","c","o","p","i","e","d"," ","t","o"," ","'">> \o destFilename \o <<"'"," ","s","u","c","c","e","s","s","f","u","l","l","y"," ","U+2705">>,
                      success |-> TRUE] @@ info, copied.fs)
        ELSE Returns([action |-> "Copy File",
                      result |-> <<"E","r","r","o","r"," ","c","o","p","y","i","n","g"," ","f","i","l","e"," ","'">> \o sourceFilename \o <<"'"," ","t","o"," ","'">> \o destFilename \o <<"'",":"," ">>
                                     \o ErrorMessage(copied.err) \o <<" ","U+274C">>,
                      success |-> FALSE, sourceFilename |-> sourceFilename, destFilename |-> destFilename,
                      error |-> ErrorMessage(copied.err)], fs)

copyFile(workingDir, fs, sourceFilename, destFilename, io) ==
    LET sourcePath == PathResolve(workingDir, sourceFilename)
        destPath == PathResolve(workingDir, destFilename)
        info == [sourceFilename |-> sourceFilename, destFilename |-> destFilename,
                 sourcePath |-> sourcePath, destPath |-> destPath]
    IN
    IF ~Exists(fs, sourcePath)
    THEN Returns([action |-> "Copy File",
                  result |-> <<"S","o","u","r","c","e"," ","f","i","l","e"," ","'">> \o sourceFilename \o <<"'"," ","n","o","t"," ","f","o","u","n","d"," ","U+274C">>,
                  success |-> FALSE] @@ info, fs)
    ELSE IF IsDirectory(fs, sourcePath)
    THEN Returns([action |-> "Copy File",
                  result |-> <<"'">> \o sourceFilename \o <<"'"," ","i","s"," ","a"," ","d","i","r","e","c","t","o","r","y",","," ","n","o","t"," ","a"," ","f","i","l","e"," ","U+274C">>,
                  success |-> FALSE] @@ info, fs)
    ELSE IF Exists(fs, destPath)
    THEN Returns([action |-> "Copy File",
                  result |-> <<"D","e","s","t","i","n","a","t","i","o","n"," ","f","i","l","e"," ","'">> \o destFilename \o <<"'"," ","a","l","r","e","a","d","y"," ","e","x","i","s","t","s"," ","U+274C">>,
                  success |-> FALSE] @@ info, fs)
    ELSE LET copied == FsCopyFile(fs, sourcePath, destPath, io) IN
         IF copied.err = ""
         THEN Returns([action |-> "Copy File",
                       result |-> <<"F","i","l","e"," ","'">> \o sourceFilename \o <<"'"," ","c","o","p","i","e","d"," ","t","o"," ","'">> \o destFilename \o <<"'"," ","s","u","c","c","e","s","s","f","u","l","l","y"," ","U+2705">>,
                       success |-> TRUE] @@ info, copied.fs)
         ELSE Returns([action |-> "Copy File",
                       result |-> <<"E","r","r","o","r"," ","c","o","p","y","i","n","g"," ","f","i","l","e"," ","'">> \o sourceFilename \o <<"'"," ","t","o"," ","'">> \o destFilename \o <<"'",":"," ">>
                                      \o ErrorMessage(copied.err) \o <<" ","U+274C">>,
                       success |-> FALSE, sourceFilename |-> sourceFilename, destFilename |-> destFilename,
                       error |-> ErrorMessage(copied.err)], fs)

\* destPath.endsWith('/') || destPath.endsWith('\\')
EndsWithSeparator(destPath) == Len(destPath) > 0 /\ destPath[Len(destPath)] \in {"/", "\\"}

\* the destination of moveFile
MoveDestination(workingDir, sourceFilename, destPath) ==
    IF EndsWithSeparator(destPath)
    THEN PathResolve(PathResolve(workingDir, destPath), sourceFilename)
    ELSE PathResolve(workingDir, destPath)

moveFile(workingDir, fs, sourceFilename, destPath, io) ==
    LET sourceFilePath == PathResolve(workingDir, sourceFilename)
        destFilePath == MoveDestination(workingDir, sourceFilename, destPath)
        info == [sourceFilename |-> sourceFilename, destPath |-> destPath, sourceFilePath |-> sourceFilePath]
    IN
    IF ~Exists(fs, sourceFilePath)
    THEN Returns([action |-> "Move File",
                  result |-> <<"S","o","u","r","c","e"," ","f","i","l","e"," ","'">> \o sourceFilename \o <<"'"," ","n","o","t"," ","f","o","u","n","d"," ","U+274C">>,
                  success |-> FALSE] @@ info, fs)
    ELSE IF IsDirectory(fs, sourceFilePath)
    THEN Returns([action |-> "Move File",
                  result |-> <<"'">> \o sourceFilename \o <<"'"," ","i","s"," ","a"," ","d","i","r","e","c","t","o","r","y",","," ","n","o","t"," ","a"," ","f","i","l","e"," ","U+274C">>,
                  success |-> FALSE] @@ info, fs)
    ELSE IF Exists(fs, destFilePath)
    THEN Returns([action |-> "Move File",
                  result |-> <<"D","e","s","t","i","n","a","t","i","o","n"," ","'">> \o destPath \o <<"'"," ","a","l","r","e","a","d","y"," ","e","x","i","s","t","s"," ","U+274C">>,
                  success |-> FALSE, destFilePath |-> destFilePath] @@ info, fs)
    ELSE LET made == FsMkdir(fs, Dirname(destFilePath), io)
             moved == FsRename(made.fs, sourceFilePath, destFilePath, io)
         IN  IF moved.err = ""
             THEN Returns([action |-> "Move File",
                           result |-> <<"F","i","l","e"," ","'">> \o sourceFilename \o <<"'"," ","m","o","v","e","d"," ","t","o"," ","'">> \o destPath \o <<"'"," ","s","u","c","c","e","s","s","f","u","l","l","y"," ","U+2705">>,
                           success |-> TRUE, destFilePath |-> destFilePath] @@ info, moved.fs)
             ELSE Returns([action |-> "Move File",
                           result |-> <<"E","r","r","o","r"," ","m","o","v","i","n","g"," ","f","i","l","e"," ","'">> \o sourceFilename \o <<"'"," ","t","o"," ","'">> \o destPath \o <<"'",":"," ">>
                                          \o ErrorMessage(moved.err) \o <<" ","U+274C">>,
                           success |-> FALSE, sourceFilename |-> sourceFilename, destPath |-> destPath,
                           error |-> ErrorMessage(moved.err)], made.fs)

\* the collation order of localeCompare on the characters of file names
CollationOrder == <<"_","-",",",";",":","!","?",".","'","\"","(",")","[","]","{","}","@","*","/","\\","&","#","%","^","+","<","=",">","|","~","$","0","1","2","3","4","5","6","7","8","9","a","b","c","d","e","f","g","h","i","j","k","l","m","n","o","p","q","r","s","t","u","v","w","x","y","z">>

Rank(c) ==
    LET at == {i \in 1..Len(CollationOrder) : CollationOrder[i] = ToLowerChar(c)}
    IN  IF at = {} THEN 0 ELSE Least(at)

\* a.localeCompare(b) < 0
RECURSIVE KeyLess(_, _)
KeyLess(a, b) ==
    IF b = << >> THEN FALSE
    ELSE IF a = << >> THEN TRUE
    ELSE IF Rank(Head(a)) # Rank(Head(b)) THEN Rank(Head(a)) < Rank(Head(b))
    ELSE KeyLess(Tail(a), Tail(b))

RECURSIVE CaseLess(_, _)
CaseLess(a, b) ==
    IF a = << >> \/ b = << >> THEN FALSE
    ELSE IF Head(a) # Head(b) THEN Head(a) = ToLowerChar(Head(a))
    ELSE CaseLess(Tail(a), Tail(b))

LocaleLess(a, b) == KeyLess(a, b) \/ (~KeyLess(b, a) /\ CaseLess(a, b))

\* the comparator of fileList.sort: directories first, then by name
EntryBefore(a, b) ==
    IF a.type # b.type THEN a.type = "directory" ELSE LocaleLess(a.name, b.name)

RECURSIVE SortEntries(_)
SortEntries(entries) ==
    IF entries = {} THEN << >>
    ELSE LET first == CHOOSE e \in entries : \A o \in entries \ {e} : EntryBefore(e, o)
         IN  << first >> \o SortEntries(entries \ {first})

\* the entries of a directory with the type and size fs.stat reports
DirEntries(fs, targetDir) ==
    {[name |-> Basename(p),
      type |-> IF IsDirectory(fs, p) THEN "directory" ELSE "file",
      size |-> IF IsDirectory(fs, p) THEN 4096 ELSE Len(fs[p].content)] :
        p \in {q \in DOMAIN fs : Len(q) = Len(targetDir) + 1 /\ Dirname(q) = targetDir}}

\* one line of the listing
EntryText(file) ==
    (IF file.type = "directory" THEN <<"U+1F4C1">> ELSE <<"U+1F4C4">>) \o <<" ">> \o file.name
        \o (IF file.type = "file" THEN <<" ","(">> \o NumToStr(file.size) \o <<" ","b","y","t","e","s",")">> ELSE <<>>)

listFiles(workingDir, fs, dir) ==
    LET targetDir == IF dir = <<".">> THEN workingDir ELSE PathResolve(workingDir, dir) IN
    IF ~Exists(fs, targetDir)
    THEN Returns([action |-> "List Files",
                  result |-> <<"D","i","r","e","c","t","o","r","y"," ","'">> \o dir \o <<"'"," ","n","o","t"," ","f","o","u","n","d"," ","U+274C">>,
                  success |-> FALSE, directory |-> dir, targetDir |-> targetDir], fs)
    ELSE IF ~IsDirectory(fs, targetDir)
    THEN Returns([action |-> "List Files",
                  result |-> <<"E","r","r","o","r"," ","l","i","s","t","i","n","g"," ","f","i","l","e","s"," ","i","n"," ","'">> \o dir \o <<"'",":"," ">> \o ErrorMessage("ENOTDIR") \o <<" ","U+274C">>,
                  success |-> FALSE, directory |-> dir, error |-> ErrorMessage("ENOTDIR")], fs)
    ELSE LET fileList == SortEntries(DirEntries(fs, targetDir))
             fileListText == Join([i \in 1..Len(fileList) |-> EntryText(fileList[i])], << "\n" >>)
         IN  Returns([action |-> "List Files",
                      result |-> <<"F","o","u","n","d"," ">> \o NumToStr(Len(fileList)) \o <<" ","i","t","e","m","s"," ","i","n"," ","'">> \o dir \o <<"'",":">> \o << "\n" >> \o fileListText,
                      success |-> TRUE, directory |-> dir, targetDir |-> targetDir, files |-> fileList,
                      totalFiles |-> Cardinality({i \in 1..Len(fileList) : fileList[i].type = "file"}),
                      totalDirectories |-> Cardinality({i \in 1..Len(fileList) : fileList[i].type = "directory"})], fs)

\* fileOps[parseResult.fn](...parseResult.args)
CallFileOperation(fn, args, workingDir, fs, io) ==
    CASE fn = "createFile"      -> createFile(workingDir, fs, args[1], io)
      [] fn = "createDirectory" -> createDirectory(workingDir, fs, args[1], io)
      [] fn = "deleteFile"      -> deleteFile(workingDir, fs, args[1], io)
      [] fn = "copyFile"        -> copyFile(workingDir, fs, args[1], args[2], io)
      [] fn = "moveFile"        -> moveFile(workingDir, fs, args[1], args[2], io)
      [] fn = "listFiles"       -> listFiles(workingDir, fs, IF Len(args) = 0 THEN <<".">> ELSE args[1])

(***************************************************************************)
(* memory.js.  memory.json holds userData, the entries in insertion order, *)
(* and commandHistory, of which only the number of entries is kept here;   *)
(* context is never written by the operations below and stays empty.       *)
(* Dates and times are the single element TimeText.                        *)
(***************************************************************************)
TimeText == << "<time>" >>

\* the number of history entries addCommandToHistory keeps
MaxMemoryHistory == 10

\* the number of entries getCommandHistory returns by default
DefaultHistoryLimit == 5

\* the structure loadMemory returns when memory.json cannot be read
EmptyMemory == [userData |-> << >>, commandHistory |-> 0]

loadMemory(file) == IF file = Nothing THEN EmptyMemory ELSE file

\* memory.userData[key]
HasKey(userData, key) == \E i \in 1..Len(userData) : userData[i].key = key

ValueOf(userData, key) == userData[CHOOSE i \in 1..Len(userData) : userData[i].key = key].value

\* memory.userData[key] = { value, timestamp }
SetKey(userData, key, value) ==
    IF HasKey(userData, key)
    THEN [i \in 1..Len(userData) |-> IF userData[i].key = key THEN [key |-> key, value |-> value] ELSE userData[i]]
    ELSE Append(userData, [key |-> key, value |-> value])

\* the outcome of a memory call: it threw (with that error) or returned ret, and the file it leaves
Threw(err, file) == [threw |-> TRUE, err |-> err, file |-> file]
Returned(ret, file) == [threw |-> FALSE, ret |-> ret, file |-> file]

\* fs.writeFile(memoryFile, ...); io is the failure of the write, "" for none
saveMemoryToFile(memory, file, io) ==
    IF io # "" THEN Threw(io, file) ELSE Returned(TRUE, memory)

saveMemory(file, key, value, io) ==
    LET memory == loadMemory(file)
        saved == saveMemoryToFile([memory EXCEPT !.userData = SetKey(@, key, value)], file, io)
    IN  IF saved.threw THEN saved
        ELSE Returned([status |-> "success",
                       message |-> <<"M","e","m","o","r","y"," ","s","a","v","e","d",":"," ","\"">> \o key \o <<"\""," ","="," ","\"">> \o value \o <<"\"">>,
                       key |-> key, value |-> value], saved.file)

getMemory(file, key) ==
    LET memory == loadMemory(file) IN
    IF HasKey(memory.userData, key)
    THEN [value |-> ValueOf(memory.userData, key), timestamp |-> TimeText, found |-> TRUE]
    ELSE [found |-> FALSE, message |-> <<"M","e","m","o","r","y"," ","n","o","t"," ","f","o","u","n","d",":"," ","\"">> \o key \o <<"\"">>]

clearMemory(file, io) ==
    LET saved == saveMemoryToFile(EmptyMemory, file, io) IN
    IF saved.threw THEN saved
    ELSE Returned([status |-> "success", message |-> <<"A","l","l"," ","m","e","m","o","r","y"," ","c","l","e","a","r","e","d"," ","s","u","c","c","e","s","s","f","u","l","l","y">>], saved.file)

addCommandToHistory(file, io) ==
    LET memory == loadMemory(file)
        longer == memory.commandHistory + 1
        kept == IF longer > MaxMemoryHistory THEN MaxMemoryHistory ELSE longer
    IN  saveMemoryToFile([memory EXCEPT !.commandHistory = kept], file, io)

\* the userData entries whose key or value contains the query, case ignored
searchMemory(file, query) ==
    LET memory == loadMemory(file)
        q == ToLowerCase(query)
    IN  SelectSeq(memory.userData,
                  LAMBDA item : Includes(ToLowerCase(item.key), q) \/ Includes(ToLowerCase(item.value), q))

\* `"${key}" = "${value}"`
EntryLine(item) == <<"\"">> \o item.key \o <<"\""," ","="," ","\"">> \o item.value \o <<"\"">>

(***************************************************************************)
(* utils/commandUtils.js: executeMemoryOperation                           *)
(***************************************************************************)
MemoryOperationError(err) ==
    [action |-> "Memory Operation",
     result |-> <<"E","r","r","o","r"," ","e","x","e","c","u","t","i","n","g"," ","m","e","m","o","r","y"," ","o","p","e","r","a","t","i","o","n",":"," ">> \o ErrorMessage(err),
     success |-> FALSE]

executeMemoryOperation(operation, args, file, io) ==
    CASE operation = "saveMemory" ->
            LET r == saveMemory(file, args[1], args[2], io) IN
            IF r.threw THEN Returned(MemoryOperationError(r.err), file)
            ELSE Returned([action |-> "Save Memory", result |-> r.ret.message,
                           success |-> r.ret.status = "success"], r.file)
      [] operation = "getMemory" ->
            LET memoryItem == getMemory(file, args[1]) IN
            IF memoryItem.found
            THEN Returned([action |-> "Recall Memory",
                           result |-> <<"\"">> \o args[1] \o <<"\""," ","="," ","\"">> \o memoryItem.value \o <<"\""," ","(","s","a","v","e","d",":"," ">> \o TimeText \o <<")">>,
                           success |-> TRUE], file)
            ELSE Returned([action |-> "Recall Memory", result |-> memoryItem.message, success |-> FALSE], file)
      [] operation = "getAllMemory" ->
            LET userData == loadMemory(file).userData
                memoryList == Join([i \in 1..Len(userData) |-> EntryLine(userData[i])], << "\n" >>)
            IN  Returned([action |-> "Show Memory",
                          result |-> <<"M","e","m","o","r","y"," ","c","o","n","t","a","i","n","s"," ">> \o NumToStr(Len(userData)) \o <<" ","i","t","e","m","s",":">> \o << "\n" >>
                                         \o (IF memoryList = <<>> THEN <<"N","o"," ","m","e","m","o","r","i","e","s"," ","s","t","o","r","e","d">> ELSE memoryList),
                          success |-> TRUE], file)
      [] operation = "clearMemory" ->
            LET r == clearMemory(file, io) IN
            IF r.threw THEN Returned(MemoryOperationError(r.err), file)
            ELSE Returned([action |-> "Clear Memory", result |-> r.ret.message,
                           success |-> r.ret.status = "success"], r.file)
      [] operation = "searchMemory" ->
            LET found == searchMemory(file, args[1])
                results == Join([i \in 1..Len(found) |-> EntryLine(found[i]) \o <<" ","(","u","s","e","r","D","a","t","a",")">>], << "\n" >>)
            IN  IF Len(found) > 0
                THEN Returned([action |-> "Search Memory",
                               result |-> <<"F","o","u","n","d"," ">> \o NumToStr(Len(found)) \o <<" ","m","a","t","c","h","e","s"," ","f","o","r"," ","\"">> \o args[1] \o <<"\"",":">>
                                              \o << "\n" >> \o results,
                               success |-> TRUE], file)
                ELSE Returned([action |-> "Search Memory",
                               result |-> <<"N","o"," ","m","a","t","c","h","e","s"," ","f","o","u","n","d"," ","f","o","r"," ","\"">> \o args[1] \o <<"\"">>,
                               success |-> FALSE], file)
      [] operation = "getMemoryStats" ->
            LET memory == loadMemory(file) IN
            Returned([action |-> "Memory Stats",
                      result |-> <<"M","e","m","o","r","y"," ","S","t","a","t","i","s","t","i","c","s",":">> \o << "\n" >>
                                     \o <<"-"," ","U","s","e","r"," ","D","a","t","a",":"," ">> \o NumToStr(Len(memory.userData)) \o <<" ","i","t","e","m","s">> \o << "\n" >>
                                     \o <<"-"," ","C","o","n","t","e","x","t",":"," ","0"," ","i","t","e","m","s">> \o << "\n" >>
                                     \o <<"-"," ","C","o","m","m","a","n","d","s",":"," ">> \o NumToStr(memory.commandHistory) \o <<" ","i","t","e","m","s">> \o << "\n" >>
                                     \o <<"-"," ","L","a","s","t"," ","U","p","d","a","t","e","d",":"," ">> \o TimeText \o << "\n" >>
                                     \o <<"-"," ","M","e","m","o","r","y"," ","S","i","z","e",":"," ">> \o << "<size>" >> \o <<" ","K","B">>,
                      success |-> TRUE], file)
      [] operation = "getCommandHistory" ->
            LET stored == loadMemory(file).commandHistory
                shown == IF stored > DefaultHistoryLimit THEN DefaultHistoryLimit ELSE stored
                historyList == Join([i \in 1..shown |-> NumToStr(i) \o <<"."," ","\"">> \o << "<command>" >> \o <<"\""," ","(">> \o TimeText \o <<")">>],
                                    << "\n" >>)
            IN  IF shown > 0
                THEN Returned([action |-> "Command History",
                               result |-> <<"R","e","c","e","n","t"," ","C","o","m","m","a","n","d","s",":">> \o << "\n" >> \o historyList,
                               success |-> TRUE], file)
                ELSE Returned([action |-> "Command History",
                               result |-> <<"N","o"," ","c","o","m","m","a","n","d"," ","h","i","s","t","o","r","y"," ","a","v","a","i","l","a","b","l","e">>,
                               success |-> FALSE], file)
      [] OTHER ->
            Returned([action |-> "Memory Operation",
                      result |-> <<"U","n","k","n","o","w","n"," ","m","e","m","o","r","y"," ","o","p","e","r","a","t","i","o","n",":"," ">> \o << operation >>,
                      success |-> FALSE], file)

(***************************************************************************)
(* utils/commandUtils.js: executeShellCommand and executeCommand           *)
(***************************************************************************)
\* obj.field || fallback for a property that may be absent
FieldOr(obj, field, fallback) == IF field \in DOMAIN obj THEN obj[field] ELSE fallback

\* if (!securityCheck.safe)
SecurityBlocks(securityCheck) == ~securityCheck.safe

\* the result of executeShellCommand for a command the policy rejects
BlockedShellResult(command, securityCheck) ==
    [success |-> FALSE,
     output |-> <<"U+1F6AB"," ","C","o","m","m","a","n","d"," ","b","l","o","c","k","e","d"," ","f","o","r"," ","s","e","c","u","r","i","t","y",":"," ">> \o command \o << "\n" >> \o <<"R","e","a","s","o","n",":"," ">> \o securityCheck.reason
                    \o (IF securityCheck.suggestion # Undefined
                        THEN << "\n" >> \o <<"S","u","g","g","e","s","t","i","o","n",":"," ">> \o securityCheck.suggestion ELSE <<>>),
     blocked |-> TRUE]

\* what the callback of exec can receive for a command: no error and the
\* standard output, or an error with the code, signal and message of
\* child_process and the standard error text.  kind tells what happened.
ExecSuccesses == {[kind |-> "success", error |-> FALSE, stdout |-> out] : out \in {<<>>, <<"o","u","t">>}}

ExecErrors(command) ==
    {[kind |-> "timeout", error |-> TRUE, code |-> "null", signal |-> "SIGTERM", stderr |-> <<>>,
      message |-> <<"C","o","m","m","a","n","d"," ","f","a","i","l","e","d",":"," ">> \o command \o << "\n" >>],
     [kind |-> "missing", error |-> TRUE, code |-> "127", signal |-> "null", stderr |-> <<"/","b","i","n","/","s","h",":"," ","n","o","t"," ","f","o","u","n","d">>,
      message |-> <<"C","o","m","m","a","n","d"," ","f","a","i","l","e","d",":"," ">> \o command \o << "\n" >> \o <<"/","b","i","n","/","s","h",":"," ","n","o","t"," ","f","o","u","n","d">>],
     [kind |-> "missing", error |-> TRUE, code |-> "ENOENT", signal |-> "null", stderr |-> <<>>,
      message |-> <<"s","p","a","w","n"," ","/","b","i","n","/","s","h"," ","E","N","O","E","N","T">>],
     [kind |-> "permission", error |-> TRUE, code |-> "EACCES", signal |-> "null", stderr |-> <<>>,
      message |-> <<"s","p","a","w","n"," ","/","b","i","n","/","s","h"," ","E","A","C","C","E","S">>],
     [kind |-> "directory", error |-> TRUE, code |-> "ENOTDIR", signal |-> "null", stderr |-> <<>>,
      message |-> <<"s","p","a","w","n"," ","/","b","i","n","/","s","h"," ","E","N","O","T","D","I","R">>],
     [kind |-> "exit", error |-> TRUE, code |-> "1", signal |-> "null", stderr |-> <<"e","r","r">>,
      message |-> <<"C","o","m","m","a","n","d"," ","f","a","i","l","e","d",":"," ">> \o command \o << "\n" >> \o <<"e","r","r">>],
     [kind |-> "exit", error |-> TRUE, code |-> "1", signal |-> "null", stderr |-> <<>>,
      message |-> <<"C","o","m","m","a","n","d"," ","f","a","i","l","e","d",":"," ">> \o command \o << "\n" >>]}

\* the error code and message the callback of exec derives from the error
ErrorCodeOf(error) ==
    IF error.code = "ENOENT" THEN "E_COMMAND_NOT_FOUND"
    ELSE IF error.code = "EACCES" THEN "E_PERMISSION_DENIED"
    ELSE IF error.signal = "SIGTERM" THEN "E_COMMAND_TIMEOUT"
    ELSE IF error.code = "ENOTDIR" THEN "E_INVALID_DIRECTORY"
    ELSE "E_COMMAND_FAILED"

ErrorTextOf(error, command) ==
    IF error.code = "ENOENT" THEN <<"C","o","m","m","a","n","d"," ","n","o","t"," ","f","o","u","n","d",":"," ">> \o FirstWord(command)
    ELSE IF error.code = "EACCES" THEN <<"P","e","r","m","i","s","s","i","o","n"," ","d","e","n","i","e","d",":"," ">> \o error.message
    ELSE IF error.signal = "SIGTERM" THEN <<"C","o","m","m","a","n","d"," ","t","i","m","e","d"," ","o","u","t"," ","a","f","t","e","r"," ","1","0"," ","s","e","c","o","n","d","s">>
    ELSE IF error.code = "ENOTDIR" THEN <<"I","n","v","a","l","i","d"," ","d","i","r","e","c","t","o","r","y",":"," ">> \o error.message
    ELSE IF error.stderr # <<>> THEN error.stderr ELSE error.message

\* the result executeShellCommand resolves to in the callback of exec
ExecShellResult(command, out) ==
    IF out.error
    THEN [success |-> FALSE, output |-> ErrorTextOf(out, command), blocked |-> FALSE, code |-> ErrorCodeOf(out)]
    ELSE [success |-> TRUE,
          output |-> IF out.stdout # <<>> THEN out.stdout ELSE <<"C","o","m","m","a","n","d"," ","e","x","e","c","u","t","e","d"," ","s","u","c","c","e","s","s","f","u","l","l","y">>,
          blocked |-> FALSE, code |-> "SUCCESS"]

\* what an invocation of executeCommand ends in
Resolved(value) == [kind |-> "resolved", value |-> value]
Rejected(err) == [kind |-> "rejected", err |-> err]

\* the return statement of the memory and file branches
OperationReturn(commandText, result) ==
    [input |-> commandText, action |-> result.action, result |-> result.result, success |-> result.success]

\* the return statement of the shell branch
ShellReturn(commandText, result) ==
    [input |-> commandText, action |-> "Shell Command", result |-> result.output, success |-> result.success,
     blocked |-> FieldOr(result, "blocked", FALSE)]

\* the catch block of each branch
BranchCatch(type, commandText, err) ==
    CASE type = "memoryOp" ->
            [input |-> commandText, action |-> "Memory Operation Error",
             result |-> <<"E","r","r","o","r"," ","e","x","e","c","u","t","i","n","g"," ","m","e","m","o","r","y"," ","o","p","e","r","a","t","i","o","n",":"," ">> \o ErrorMessage(err),
             success |-> FALSE, code |-> "E_MEMORY_OPERATION_FAILED"]
      [] type = "fileOp" ->
            [input |-> commandText, action |-> "File Operation Error",
             result |-> <<"E","r","r","o","r"," ","e","x","e","c","u","t","i","n","g"," ","f","i","l","e"," ","o","p","e","r","a","t","i","o","n",":"," ">> \o ErrorMessage(err),
             success |-> FALSE, code |-> "E_FILE_OPERATION_FAILED"]
      [] type = "shell" ->
            [input |-> commandText, action |-> "Shell Command Error",
             result |-> <<"E","r","r","o","r"," ","e","x","e","c","u","t","i","n","g"," ","s","h","e","l","l"," ","c","o","m","m","a","n","d",":"," ">> \o ErrorMessage(err),
             success |-> FALSE, code |-> "E_SHELL_COMMAND_FAILED"]

\* the return statement that follows the branch's sub-executor and addCommandToHistory
BranchReturn(type, commandText, result) ==
    IF type = "shell" THEN ShellReturn(commandText, result) ELSE OperationReturn(commandText, result)

\* the top-level catch block of executeCommand
TopLevelCatch_Rethrow(commandText, message) == Rejected(message)

TopLevelCatch(commandText, message) ==
    Resolved([input |-> commandText, action |-> "System Error",
              result |-> <<"A","n"," ","u","n","e","x","p","e","c","t","e","d"," ","e","r","r","o","r"," ","o","c","c","u","r","r","e","d",":"," ">> \o message,
              success |-> FALSE, code |-> "E_SYSTEM_ERROR"])

\* the return statements for a parse error and for an unknown parse result type
ParseErrorReturn(commandText, parseResult) ==
    [input |-> commandText, action |-> "Parse Error", result |-> parseResult.error,
     success |-> FALSE, code |-> "E_PARSE_ERROR"]

UnknownCommandReturn(commandText) ==
    [input |-> commandText, action |-> "Unknown Command", result |-> <<"C","o","m","m","a","n","d"," ","t","y","p","e"," ","n","o","t"," ","r","e","c","o","g","n","i","z","e","d">>,
     success |-> FALSE, code |-> "E_UNKNOWN_COMMAND"]

(***************************************************************************)
(* server.js: POST /command and POST /history/reexecute                    *)
(***************************************************************************)
\* the response to a request that fails validation
ValidationError(httpStatus, code, message, commandText) ==
    [httpStatus |-> httpStatus, status |-> "error", message |-> message, code |-> code,
     data |-> [command |-> commandText, result |-> Null, error |-> message]]

\* the validation of commandText in POST /command: the response that ends the request, Nothing to go on
ValidateCommandText(commandText) ==
    IF ~Truthy(commandText)
    THEN ValidationError(400, "E_MISSING_COMMAND", <<"M","i","s","s","i","n","g"," ","c","o","m","m","a","n","d","T","e","x","t"," ","i","n"," ","r","e","q","u","e","s","t"," ","b","o","d","y">>, <<>>)
    ELSE IF ~IsString(commandText)
    THEN ValidationError(500, "E_INTERNAL_ERROR",
                         <<"I","n","t","e","r","n","a","l"," ","s","e","r","v","e","r"," ","e","r","r","o","r",":"," ","c","o","m","m","a","n","d","T","e","x","t",".","t","r","i","m"," ","i","s"," ","n","o","t"," ","a"," ","f","u","n","c","t","i","o","n">>, commandText)
    ELSE IF ~Truthy(Trim(commandText))
    THEN ValidationError(400, "E_EMPTY_COMMAND", <<"C","o","m","m","a","n","d"," ","c","a","n","n","o","t"," ","b","e"," ","e","m","p","t","y">>, commandText)
    ELSE Nothing

\* the status of a result in the log line and the history entry
LogStatus(result) ==
    IF result.success THEN "SUCCESS" ELSE IF FieldOr(result, "blocked", FALSE) THEN "BLOCKED" ELSE "ERROR"

\* the log records executeScheduledCommand writes for a result
ScheduledLogRecords(result) ==
    IF result.success THEN << [by |-> "logCommand", status |-> "SUCCESS"] >>
    ELSE IF FieldOr(result, "blocked", FALSE)
    THEN << [by |-> "logCommand", status |-> "BLOCKED"], [by |-> "logSecurity", status |-> "BLOCKED"] >>
    ELSE << [by |-> "logCommand", status |-> "ERROR"] >>

\* the JSON response built from the result of executeCommand
CommandResponse(commandText, result) ==
    LET blocked == FieldOr(result, "blocked", FALSE)
        text == result.result
        status == IF blocked THEN "blocked" ELSE IF result.success THEN "success" ELSE "error"
        message == IF blocked THEN <<"C","o","m","m","a","n","d"," ","b","l","o","c","k","e","d"," ","b","y"," ","s","e","c","u","r","i","t","y"," ","r","u","l","e","s">>
                   ELSE IF result.success THEN (IF Truthy(text) THEN text ELSE <<"C","o","m","m","a","n","d"," ","e","x","e","c","u","t","e","d"," ","s","u","c","c","e","s","s","f","u","l","l","y">>)
                   ELSE (IF Truthy(text) THEN text ELSE <<"C","o","m","m","a","n","d"," ","e","x","e","c","u","t","i","o","n"," ","f","a","i","l","e","d">>)
        code == IF blocked THEN "E_COMMAND_BLOCKED"
                ELSE IF result.success THEN "SUCCESS"
                ELSE FieldOr(result, "code", "E_COMMAND_FAILED")
    IN  [httpStatus |-> 200, status |-> status, message |-> message, code |-> code,
         data |-> [command |-> commandText,
                   result |-> IF result.success THEN text ELSE Null,
                   error |-> IF result.success THEN Null ELSE (IF Truthy(text) THEN text ELSE <<"U","n","k","n","o","w","n"," ","e","r","r","o","r">>)]]

\* the response of the catch block of a route
InternalErrorResponse(commandText, message) ==
    [httpStatus |-> 500, status |-> "error", message |-> <<"I","n","t","e","r","n","a","l"," ","s","e","r","v","e","r"," ","e","r","r","o","r",":"," ">> \o message,
     code |-> "E_INTERNAL_ERROR",
     data |-> [command |-> IF Truthy(commandText) THEN commandText ELSE <<"u","n","k","n","o","w","n">>, result |-> Null, error |-> message]]

(***************************************************************************)
(* The state machine: one invocation at a time enters through POST         *)
(* /command, POST /history/reexecute or a scheduler timer, runs            *)
(* executeCommand step by step (one step per await) and is answered.       *)
(***************************************************************************)
VARIABLES
    pc,             \* where the current invocation stands
    entry,          \* the entry point of the current invocation
    input,          \* commandText
    parseResult,    \* the result of parseCommand, Nothing before the parser has run
    securityCheck,  \* the verdict of isCommandSafe, Nothing before the check
    spawned,        \* the command strings handed to exec by this invocation
    execOutcome,    \* what the callback of exec received, Nothing before it ran
    subResult,      \* the result of the memory, file or shell sub-executor
    outcome,        \* what executeCommand resolved to (or rejected with)
    response,       \* the HTTP response, Nothing when none has been sent
    auditLog,       \* the log records written for this invocation
    files,          \* the file system
    memoryFile,     \* the content of memory.json, Nothing when the file does not exist
    requests,       \* the number of invocations started
    tasks,          \* the calls in flight at the same time, by name
    scheduledJobs,  \* the content of scheduledJobs.json, the empty list when the file does not exist
    activeSchedules,    \* the Map activeSchedules of utils/scheduler.js
    timers,         \* the timers of the process that are armed, by schedule id
    now,            \* the clock, in hours
    scheduleIdCounter   \* the counter of utils/scheduler.js

vars == << pc, entry, input, parseResult, securityCheck, spawned, execOutcome, subResult,
           outcome, response, auditLog, files, memoryFile, requests, calls, tasks,
           scheduledJobs, activeSchedules, timers, now, scheduleIdCounter >>

\* the state of utils/scheduler.js
schedulerState == << scheduledJobs, activeSchedules, timers, now, scheduleIdCounter >>

\* the number of invocations of one behaviour
MaxRequests == 2

\* the failures a write to a file can meet, "" for none
IoFailures == {"", "EACCES"}

\* the command texts of the invocations
CommandTexts == {
    <<"l","s">>, <<"c","a","t"," ","/","e","t","c","/","h","o","s","t","s">>, <<"l","s"," ",".",".","/",".",".">>, <<"r","m"," ","-","r","f"," ","/">>, <<"h","a","c","k">>, <<"l","s"," ","&","&"," ","r","m"," ","-","r","f"," ","/">>, <<"e","c","h","o"," ","x"," ",">","/","E","T","C","/","h","o","s","t","s">>, <<" ">>,
    <<"c","r","e","a","t","e"," ","f","i","l","e"," ","a",".","t","x","t">>, <<"c","r","e","a","t","e"," ","f","i","l","e"," ",".",".","/","x">>, <<"d","e","l","e","t","e"," ","f","i","l","e"," ","a",".","t","x","t">>, <<"c","o","p","y"," ","f","i","l","e"," ","a",".","t","x","t"," ","t","o"," ",".",".","/","b">>,
    <<"m","o","v","e"," ","f","i","l","e"," ","a",".","t","x","t"," ","t","o"," ",".",".","/",".",".","/","e","t","c","/","p","a","s","s","w","d">>, <<"m","o","v","e"," ","f","i","l","e"," ","a",".","t","x","t"," ","t","o"," ","d","/">>, <<"c","r","e","a","t","e"," ","d","i","r","e","c","t","o","r","y"," ","d">>, <<"l","i","s","t"," ","f","i","l","e","s">>,
    <<"r","e","m","e","m","b","e","r"," ","k"," ","i","s"," ","v">>, <<"r","e","m","e","m","b","e","r"," ","k">>, <<"r","e","c","a","l","l"," ","k">>, <<"s","h","o","w"," ","m","e","m","o","r","y">>, <<"c","l","e","a","r"," ","m","e","m","o","r","y">>, <<"s","e","a","r","c","h"," ","m","e","m","o","r","y"," ","k">>,
    <<"m","e","m","o","r","y"," ","s","t","a","t","s">>, <<"c","o","m","m","a","n","d"," ","h","i","s","t","o","r","y">> }

\* the values a request body can carry as commandText
BodyValues == CommandTexts \cup {<<>>, Undefined, Num, Obj}

\* the commands of history entries and of schedules: values that passed the test !command
StoredValues == {<<"l","s">>, <<"r","m"," ","-","r","f"," ","/">>, <<" ">>, <<"c","r","e","a","t","e"," ","f","i","l","e"," ",".",".","/","x">>, <<"r","e","m","e","m","b","e","r"," ","k"," ","i","s"," ","v">>, Num, Obj}

\* the file system at start: the sandbox root with its logs directory, and /etc
InitialFiles ==
    LET dirs == Prefixes(WORKING_DIR \o << <<"l","o","g","s">> >>) \cup { << <<"e","t","c">> >> }
        regular == { << <<"e","t","c">>, <<"p","a","s","s","w","d">> >>, << <<"e","t","c">>, <<"h","o","s","t","s">> >> }
    IN  [p \in dirs \cup regular |-> IF p \in dirs THEN Dir ELSE File(<<"r","o","o","t">>)]

Init ==
    /\ pc = "idle"
    /\ entry = "none"
    /\ input = Undefined
    /\ parseResult = Nothing
    /\ securityCheck = Nothing
    /\ spawned = << >>
    /\ execOutcome = Nothing
    /\ subResult = Nothing
    /\ outcome = Nothing
    /\ response = Nothing
    /\ auditLog = << >>
    /\ files = InitialFiles
    /\ memoryFile = Nothing
    /\ requests = 0
    /\ calls = << >>
    /\ tasks = << >>
    /\ scheduledJobs = << >>
    /\ activeSchedules = << >>
    /\ timers = << >>
    /\ now = 0
    /\ scheduleIdCounter = 1

\* a new invocation starts
Fresh ==
    /\ pc = "idle"
    /\ requests < MaxRequests
    /\ requests' = requests + 1
    /\ UNCHANGED << parseResult, securityCheck, spawned, execOutcome, subResult, outcome, auditLog,
                    files, memoryFile, calls, tasks, schedulerState >>

\* POST /command up to the call of executeCommand
PostCommand(commandText) ==
    /\ Fresh
    /\ entry' = "command"
    /\ input' = commandText
    /\ response' = ValidateCommandText(commandText)
    /\ pc' = IF response' = Nothing THEN "executeCommand" ELSE "done"

\* POST /history/reexecute up to the call of executeCommand, for an entry that is found
PostReexecute(commandText) ==
    /\ Fresh
    /\ entry' = "reexecute"
    /\ input' = commandText
    /\ response' = Nothing
    /\ pc' = "executeCommand"

\* a scheduler timer fires: executeScheduledCommand up to the call of executeCommand
TimerFires(commandText) ==
    /\ Fresh
    /\ commandText # Obj
    /\ entry' = "timer"
    /\ input' = commandText
    /\ response' = Nothing
    /\ pc' = "executeCommand"

\* executeCommand up to its dispatch on parseResult.type
ExecuteCommandParse ==
    /\ pc = "executeCommand"
    /\ IF input = Obj
       THEN /\ outcome' = TopLevelCatch(input, <<"C","a","n","n","o","t"," ","c","o","n","v","e","r","t"," ","o","b","j","e","c","t"," ","t","o"," ","p","r","i","m","i","t","i","v","e"," ","v","a","l","u","e">>)
            /\ pc' = "returned"
            /\ UNCHANGED parseResult
       ELSE /\ parseResult' = parseCommand(input)
            /\ IF parseResult'.type = "error"
               THEN outcome' = Resolved(ParseErrorReturn(input, parseResult')) /\ pc' = "returned"
               ELSE IF parseResult'.type \in {"memoryOp", "fileOp", "shell"}
               THEN outcome' = outcome /\ pc' = parseResult'.type
               ELSE outcome' = Resolved(UnknownCommandReturn(input)) /\ pc' = "returned"
    /\ UNCHANGED << entry, input, securityCheck, spawned, execOutcome, subResult, response, auditLog,
                    files, memoryFile, requests, calls, tasks, schedulerState >>

\* the memory branch: await executeMemoryOperation(parseResult.fn, parseResult.args)
MemoryOperation(io) ==
    /\ pc = "memoryOp"
    /\ LET r == executeMemoryOperation(parseResult.fn, parseResult.args, memoryFile, io)
       IN  subResult' = r.ret /\ memoryFile' = r.file
    /\ pc' = "history"
    /\ UNCHANGED << entry, input, parseResult, securityCheck, spawned, execOutcome, outcome, response,
                    auditLog, files, requests, calls, tasks, schedulerState >>

\* the file branch: await fileOps[parseResult.fn](...parseResult.args)
FileOperation(io) ==
    /\ pc = "fileOp"
    /\ LET r == CallFileOperation(parseResult.fn, parseResult.args, WORKING_DIR, files, io)
       IN  subResult' = r.ret /\ files' = r.fs
    /\ pc' = "history"
    /\ UNCHANGED << entry, input, parseResult, securityCheck, spawned, execOutcome, outcome, response,
                    auditLog, memoryFile, requests, calls, tasks, schedulerState >>

\* the shell branch: executeShellCommand up to the call of exec
ShellSecurityCheck ==
    /\ pc = "shell"
    /\ securityCheck' = isCommandSafe(parseResult.command)
    /\ IF SecurityBlocks(securityCheck')
       THEN /\ auditLog' = Append(auditLog, [by |-> "logSecurity", status |-> "BLOCKED"])
            /\ subResult' = BlockedShellResult(parseResult.command, securityCheck')
            /\ pc' = "history"
            /\ UNCHANGED spawned
       ELSE /\ auditLog' = Append(auditLog, [by |-> "logCommand", status |-> "SUCCESS"])
            /\ spawned' = Append(spawned, parseResult.command)
            /\ pc' = "running"
            /\ UNCHANGED subResult
    /\ UNCHANGED << entry, input, parseResult, execOutcome, outcome, response, files, memoryFile, requests, calls, tasks, schedulerState >>

\* the callback of exec
ExecCallback ==
    /\ pc = "running"
    /\ \E out \in ExecSuccesses \cup ExecErrors(parseResult.command) :
          /\ execOutcome' = out
          /\ auditLog' = Append(auditLog, [by |-> "logCommand", status |-> IF out.error THEN "ERROR" ELSE "SUCCESS"])
          /\ subResult' = ExecShellResult(parseResult.command, out)
    /\ pc' = "history"
    /\ UNCHANGED << entry, input, parseResult, securityCheck, spawned, outcome, response, files,
                    memoryFile, requests, calls, tasks, schedulerState >>

\* await memory.addCommandToHistory(commandText, result) and the return or catch that follows
AddCommandToHistory(io) ==
    /\ pc = "history"
    /\ LET r == addCommandToHistory(memoryFile, io)
       IN  /\ memoryFile' = r.file
           /\ outcome' = IF r.threw
                         THEN Resolved(BranchCatch(parseResult.type, input, r.err))
                         ELSE Resolved(BranchReturn(parseResult.type, input, subResult))
    /\ pc' = "returned"
    /\ UNCHANGED << entry, input, parseResult, securityCheck, spawned, execOutcome, subResult, response,
                    auditLog, files, requests, calls, tasks, schedulerState >>

\* the caller receives the result: the routes and the scheduler log it, the routes answer
Respond ==
    /\ pc = "returned"
    /\ IF outcome.kind = "rejected"
       THEN /\ response' = IF entry = "timer" THEN response ELSE InternalErrorResponse(input, outcome.err)
            /\ auditLog' = IF entry = "timer"
                           THEN Append(auditLog, [by |-> "logCommand", status |-> "ERROR"])
                           ELSE auditLog
       ELSE IF entry = "timer"
       THEN /\ response' = response
            /\ auditLog' = auditLog \o ScheduledLogRecords(outcome.value)
       ELSE /\ response' = CommandResponse(input, outcome.value)
            /\ auditLog' = Append(auditLog, [by |-> "logCommand", status |-> LogStatus(outcome.value)])
    /\ pc' = "done"
    /\ UNCHANGED << entry, input, parseResult, securityCheck, spawned, execOutcome, subResult, outcome,
                    files, memoryFile, requests, calls, tasks, schedulerState >>

\* the invocation is over: its locals are gone, the files stay
Return ==
    /\ pc = "done"
    /\ pc' = "idle"
    /\ entry' = "none"
    /\ input' = Undefined
    /\ parseResult' = Nothing
    /\ securityCheck' = Nothing
    /\ spawned' = << >>
    /\ execOutcome' = Nothing
    /\ subResult' = Nothing
    /\ outcome' = Nothing
    /\ response' = Nothing
    /\ auditLog' = << >>
    /\ UNCHANGED << files, memoryFile, requests, calls, tasks, schedulerState >>

Next ==
    \/ \E v \in BodyValues : PostCommand(v)
    \/ \E v \in StoredValues : PostReexecute(v)
    \/ \E v \in StoredValues : TimerFires(v)
    \/ ExecuteCommandParse
    \/ \E io \in IoFailures : MemoryOperation(io)
    \/ \E io \in IoFailures : FileOperation(io)
    \/ ShellSecurityCheck
    \/ ExecCallback
    \/ \E io \in IoFailures : AddCommandToHistory(io)
    \/ Respond
    \/ Return

Spec == Init /\ [][Next]_vars

(***************************************************************************)
(* isCommandSafe on its own: the policy applied to one command string      *)
(***************************************************************************)
\* command strings and their variants in case, padding and chaining
PolicyWords == {
    <<"l","s">>, <<"p","w","d">>, <<"h","a","c","k">>, <<"r","m"," ","-","r","f"," ","/">>, <<"r","m"," "," ","-","r"," ","/">>, <<"c","h","m","o","d"," "," ","7","7","7"," ","/">>, <<"c","h","m","o","d"," ","7","7","7"," ","/","e","t","c">>, <<"e","c","h","o"," ","x"," ",">","/","e","t","c","/","h","o","s","t","s">>,
    <<"e","c","h","o"," ","x"," ",">"," ","/","e","t","c","/","p","a","s","s","w","d">>, <<"k","i","l","l"," "," ","-","9"," ","2","3">>, <<"s","u","d","o"," "," ","v","i","s","u","d","o">>, <<"c","a","t"," ","/","e","t","c","/","h","o","s","t","s">>, <<"e","c","h","o"," ","h","i">>, <<"s","h","u","t","d","o","w","n">>,
    <<"n","o","n","e","x","i","s","t","e","n","t","_","c","o","m","m","a","n","d","_","1","2","3","4","5">>, <<"e","v","a","l"," ","x">>, <<"d","d"," "," ","i","f","=","a"," ","o","f","=","/","d","e","v","/","s","d","a">>, <<"c","h","o","w","n"," "," ","r","o","o","t"," ","/">>, <<"b","a","s","h"," "," ","-","c"," ","'","x","'">>,
    <<"s","o","u","r","c","e"," "," ","/","d","e","v","/","s","t","d","i","n">>, <<"g","i","t"," ","s","t","a","t","u","s">>, <<"p","y","t","h","o","n","3"," ","a",".","p","y">>, <<>>, <<" ">> }

PolicyJoiners == { <<" ","&","&"," ">>, <<"&","&">>, <<" ","|","|"," ">>, <<";"," ">>, <<";">>, <<" ",";"," ">>, <<" ","|"," ">>, <<" ","&"," ">>, <<" ",">"," ">>, <<" ","$","(">>, <<" ","U+0060">>, << " ", "\n" >> }

PolicyInputs ==
    PolicyWords
        \cup {ToUpperCase(w) : w \in PolicyWords}
        \cup {<<" "," ">> \o w \o <<" ">> : w \in PolicyWords}
        \cup {<< "\t" >> \o w \o << "\n" >> : w \in PolicyWords}
        \cup {a \o j \o b : a \in {<<"l","s">>, <<"L","S">>, <<"e","c","h","o"," ","h","i">>, <<"h","a","c","k">>}, j \in PolicyJoiners, b \in {<<"p","w","d">>, <<"r","m"," ","-","r","f"," ","/">>, <<"i","d",")">>}}
        \cup {Null, Num}

InitPolicy ==
    /\ pc = "policy"
    /\ entry = "none"
    /\ input \in PolicyInputs
    /\ parseResult = Nothing
    /\ securityCheck = Nothing
    /\ spawned = << >>
    /\ execOutcome = Nothing
    /\ subResult = Nothing
    /\ outcome = Nothing
    /\ response = Nothing
    /\ auditLog = << >>
    /\ files = InitialFiles
    /\ memoryFile = Nothing
    /\ requests = 0
    /\ calls = << >>
    /\ tasks = << >>
    /\ scheduledJobs = << >>
    /\ activeSchedules = << >>
    /\ timers = << >>
    /\ now = 0
    /\ scheduleIdCounter = 1

\* security.isCommandSafe(command)
PolicyCheck ==
    /\ pc = "policy"
    /\ securityCheck' = isCommandSafe(input)
    /\ pc' = "checked"
    /\ UNCHANGED << entry, input, parseResult, spawned, execOutcome, subResult, outcome, response,
                    auditLog, files, memoryFile, requests, calls, tasks, schedulerState >>

NextPolicy == PolicyCheck

SpecPolicy == InitPolicy /\ [][NextPolicy]_vars

(***************************************************************************)
(* FileOperations on its own: the methods of one instance, whose working   *)
(* directory is the sandbox root, called one after the other.              *)
(* parseResult holds the call (fn, args), subResult what it returned.      *)
(***************************************************************************)
\* the names the methods are called with
FileNames == {<<"a",".","t","x","t">>, <<"b",".","t","x","t">>}

CreatedNames == FileNames \cup {<<"d","/","a",".","t","x","t">>}

DirectoryNames == {<<"d">>}

SourceNames == FileNames \cup DirectoryNames

ListedNames == {<<".">>, <<"d">>}

\* the destinations of moveFile
MoveTargets == FileNames \cup {<<"e","/">>}

\* the files moveFile is asked to move
MovedNames == SourceNames \cup {<<"d","/","a",".","t","x","t">>}

\* the number of calls of one behaviour
MaxCalls == 4

\* the file systems at start: the sandbox root, with or without a file that has content
StartFileSystems ==
    { InitialFiles,
      Put(InitialFiles, WORKING_DIR \o << <<"b",".","t","x","t">> >>, File(<<"h","i">>)),
      Put(Put(InitialFiles, WORKING_DIR \o << <<"d">> >>, Dir), WORKING_DIR \o << <<"d">>, <<"a",".","t","x","t">> >>, File(<<"d","a","t","a">>)) }

InitFiles ==
    /\ pc = "files"
    /\ entry = "none"
    /\ input = Undefined
    /\ parseResult = Nothing
    /\ securityCheck = Nothing
    /\ spawned = << >>
    /\ execOutcome = Nothing
    /\ subResult = Nothing
    /\ outcome = Nothing
    /\ response = Nothing
    /\ auditLog = << >>
    /\ files \in StartFileSystems
    /\ memoryFile = Nothing
    /\ requests = 0
    /\ calls = << >>
    /\ tasks = << >>
    /\ scheduledJobs = << >>
    /\ activeSchedules = << >>
    /\ timers = << >>
    /\ now = 0
    /\ scheduleIdCounter = 1

\* one call of a method of FileOperations
FileCall(fn, args, io) ==
    /\ pc = "files"
    /\ requests < MaxCalls
    /\ requests' = requests + 1
    /\ parseResult' = [type |-> "fileOp", fn |-> fn, args |-> args]
    /\ LET r == CallFileOperation(fn, args, WORKING_DIR, files, io)
       IN  subResult' = r.ret /\ files' = r.fs
    /\ UNCHANGED << pc, entry, input, securityCheck, spawned, execOutcome, outcome, response, auditLog,
                    memoryFile, calls, tasks, schedulerState >>

CreateFileCall(filename, io) == FileCall("createFile", << filename >>, io)

CreateDirectoryCall(dirname, io) == FileCall("createDirectory", << dirname >>, io)

DeleteFileCall(filename, io) == FileCall("deleteFile", << filename >>, io)

CopyFileCall(sourceFilename, destFilename, io) == FileCall("copyFile", << sourceFilename, destFilename >>, io)

MoveFileCall(sourceFilename, destPath, io) == FileCall("moveFile", << sourceFilename, destPath >>, io)

ListFilesCall(dir) == FileCall("listFiles", << dir >>, "")

NextFiles ==
    \/ \E filename \in CreatedNames, io \in IoFailures : CreateFileCall(filename, io)
    \/ \E dirname \in DirectoryNames, io \in IoFailures : CreateDirectoryCall(dirname, io)
    \/ \E filename \in SourceNames, io \in IoFailures : DeleteFileCall(filename, io)
    \/ \E sourceFilename \in SourceNames, destFilename \in FileNames, io \in IoFailures :
          CopyFileCall(sourceFilename, destFilename, io)
    \/ \E sourceFilename \in MovedNames, destPath \in MoveTargets, io \in IoFailures :
          MoveFileCall(sourceFilename, destPath, io)
    \/ \E dir \in ListedNames : ListFilesCall(dir)

SpecFiles == InitFiles /\ [][NextFiles]_vars

(***************************************************************************)
(* A session of memory commands: executeCommand called again and again,    *)
(* each call awaited before the next one is made, as testMemorySystem      *)
(* does.  input holds the command of the last call, outcome what it        *)
(* returned.                                                               *)
(***************************************************************************)
\* the commands of the session
SessionTexts == {
    <<"r","e","m","e","m","b","e","r"," ","k"," ","i","s"," ","v">>, <<"r","e","c","a","l","l"," ","k">>, <<"r","e","m","e","m","b","e","r"," ","j"," ","i","s"," ","w">>, <<"r","e","c","a","l","l"," ","j">>, <<"r","e","m","e","m","b","e","r"," ","r","e","m","e","m","b","e","r"," ","k"," ","i","s"," ","w">>,
    <<"r","e","c","a","l","l"," ","r","e","m","e","m","b","e","r"," ","k">>, <<"c","l","e","a","r"," ","m","e","m","o","r","y">> }

\* the number of commands of one session
MaxCommands == 3

InitSession ==
    /\ pc = "session"
    /\ entry = "none"
    /\ input = Undefined
    /\ parseResult = Nothing
    /\ securityCheck = Nothing
    /\ spawned = << >>
    /\ execOutcome = Nothing
    /\ subResult = Nothing
    /\ outcome = Nothing
    /\ response = Nothing
    /\ auditLog = << >>
    /\ files = InitialFiles
    /\ memoryFile = Nothing
    /\ requests = 0
    /\ calls = << >>
    /\ tasks = << >>
    /\ scheduledJobs = << >>
    /\ activeSchedules = << >>
    /\ timers = << >>
    /\ now = 0
    /\ scheduleIdCounter = 1

\* executeCommand(commandText) from its call to its return, for a command that
\* parseCommand classifies as parsed, a memory operation; ioSave and ioHistory
\* are the failures of the two writes of memory.json
ExecuteMemoryCommand(commandText, parsed, ioSave, ioHistory) ==
    /\ pc = "session"
    /\ requests < MaxCommands
    /\ requests' = requests + 1
    /\ parsed.type = "memoryOp"
    /\ input' = commandText
    /\ parseResult' = parsed
    /\ LET result == executeMemoryOperation(parsed.fn, parsed.args, memoryFile, ioSave)
           logged == addCommandToHistory(result.file, ioHistory)
       IN  /\ subResult' = result.ret
           /\ memoryFile' = logged.file
           /\ outcome' = IF logged.threw
                         THEN Resolved(BranchCatch("memoryOp", commandText, logged.err))
                         ELSE Resolved(BranchReturn("memoryOp", commandText, result.ret))
    /\ UNCHANGED << pc, entry, securityCheck, spawned, execOutcome, response, auditLog, files, calls, tasks, schedulerState >>

NextSession ==
    \E commandText \in SessionTexts :
        LET parsed == parseCommand(commandText)
        IN  \E ioSave \in IoFailures, ioHistory \in IoFailures :
                ExecuteMemoryCommand(commandText, parsed, ioSave, ioHistory)

SpecSession == InitSession /\ [][NextSession]_vars

(***************************************************************************)
(* parseCommand on its own: the parser called again and again by one       *)
(* caller, which keeps what each call returned.                            *)
(***************************************************************************)
\* the arguments of the calls
ParserInputs == {
    <<"r","e","m","e","m","b","e","r"," ","k"," ","i","s"," ","v">>, <<"r","e","m","e","m","b","e","r"," ","k">>, <<"r","e","c","a","l","l"," ","k">>, <<"r","e","m","e","m","b","e","r"," ","t","o"," ","c","r","e","a","t","e"," ","f","i","l","e"," ","x">>, <<"c","o","p","y"," ","f","i","l","e"," ","a"," ","t","o"," ","b">>,
    <<"c","o","p","y"," ","f","i","l","e"," ","r","e","m","e","m","b","e","r"," ","t","o"," ","b">>, <<"m","k","d","i","r"," ","d"," ","c","r","e","a","t","e"," ","f","i","l","e"," ","a">>, <<"l","s">>, <<"h","e","l","l","o">>, <<" ">>, <<>>, Null, Undefined, Num }

\* the number of calls of one behaviour
MaxParses == 3

InitParser ==
    /\ pc = "parser"
    /\ entry = "none"
    /\ input = Undefined
    /\ parseResult = Nothing
    /\ securityCheck = Nothing
    /\ spawned = << >>
    /\ execOutcome = Nothing
    /\ subResult = Nothing
    /\ outcome = Nothing
    /\ response = Nothing
    /\ auditLog = << >>
    /\ files = InitialFiles
    /\ memoryFile = Nothing
    /\ requests = 0
    /\ calls = << >>
    /\ tasks = << >>
    /\ scheduledJobs = << >>
    /\ activeSchedules = << >>
    /\ timers = << >>
    /\ now = 0
    /\ scheduleIdCounter = 1

\* one call of parseCommand(commandText), which returns parsed
ParseCall(commandText, parsed) ==
    /\ pc = "parser"
    /\ requests < MaxParses
    /\ requests' = requests + 1
    /\ input' = commandText
    /\ parseResult' = parsed
    /\ calls' = Append(calls, [input |-> commandText, parseResult |-> parsed])
    /\ UNCHANGED << pc, entry, securityCheck, spawned, execOutcome, subResult, outcome, response,
                    auditLog, files, memoryFile, tasks, schedulerState >>

NextParser ==
    \E commandText \in ParserInputs :
        LET parsed == parseCommand(commandText)
        IN  ParseCall(commandText, parsed)

SpecParser == InitParser /\ [][NextParser]_vars

(***************************************************************************)
(* Two calls of executeCommand in flight at the same time, as two requests *)
(* to POST /command make them.  Each call runs its memory branch; the      *)
(* calls take turns where they wait for the file system: one step per      *)
(* read and per write of memory.json.  A read or a write is one step: no   *)
(* call sees a half-written file.                                          *)
(***************************************************************************)
TaskNames == {"first", "second"}

\* the commands of the two calls
TaskTexts == {<<"r","e","m","e","m","b","e","r"," ","a"," ","i","s"," ","1">>, <<"r","e","m","e","m","b","e","r"," ","b"," ","i","s"," ","2">>, <<"r","e","m","e","m","b","e","r"," ","a"," ","i","s"," ","3">>}

\* a call that has not read anything yet
NewTask(commandText) ==
    [pc |-> "called", commandText |-> commandText, parseResult |-> Nothing, memory |-> Nothing,
     result |-> Nothing, outcome |-> Nothing]

InitTasks ==
    /\ pc = "tasks"
    /\ entry = "none"
    /\ input = Undefined
    /\ parseResult = Nothing
    /\ securityCheck = Nothing
    /\ spawned = << >>
    /\ execOutcome = Nothing
    /\ subResult = Nothing
    /\ outcome = Nothing
    /\ response = Nothing
    /\ auditLog = << >>
    /\ files = InitialFiles
    /\ memoryFile = Nothing
    /\ requests = 0
    /\ calls = << >>
    /\ tasks \in [TaskNames -> {NewTask(commandText) : commandText \in TaskTexts}]
    /\ scheduledJobs = << >>
    /\ activeSchedules = << >>
    /\ timers = << >>
    /\ now = 0
    /\ scheduleIdCounter = 1

TaskStep(t, next) ==
    /\ pc = "tasks"
    /\ tasks' = [tasks EXCEPT ![t] = next]
    /\ UNCHANGED << pc, entry, input, parseResult, securityCheck, spawned, execOutcome, subResult, outcome,
                    response, auditLog, files, requests, calls, schedulerState >>

\* executeCommand up to the end of the read in saveMemory: const memory = await loadMemory()
ReadForSave(t, parsed) ==
    /\ tasks[t].pc = "called"
    /\ parsed.type = "memoryOp" /\ parsed.fn = "saveMemory"
    /\ TaskStep(t, [tasks[t] EXCEPT !.pc = "saving", !.parseResult = parsed, !.memory = loadMemory(memoryFile)])
    /\ UNCHANGED memoryFile

\* the rest of saveMemory and of executeMemoryOperation: the entry is set in
\* the structure that was read, and the structure is written
WriteSave(t, io) ==
    /\ tasks[t].pc = "saving"
    /\ LET key == tasks[t].parseResult.args[1]
           value == tasks[t].parseResult.args[2]
           memory == [tasks[t].memory EXCEPT !.userData = SetKey(@, key, value)]
           saved == saveMemoryToFile(memory, memoryFile, io)
           result == IF saved.threw
                     THEN MemoryOperationError(saved.err)
                     ELSE [action |-> "Save Memory",
                           result |-> <<"M","e","m","o","r","y"," ","s","a","v","e","d",":"," ","\"">> \o key \o <<"\""," ","="," ","\"">> \o value \o <<"\"">>,
                           success |-> TRUE]
       IN  /\ memoryFile' = saved.file
           /\ TaskStep(t, [tasks[t] EXCEPT !.pc = "logging", !.result = result, !.memory = Nothing])

\* addCommandToHistory up to the end of its read: const memory = await loadMemory()
ReadForHistory(t) ==
    /\ tasks[t].pc = "logging"
    /\ TaskStep(t, [tasks[t] EXCEPT !.pc = "writing", !.memory = loadMemory(memoryFile)])
    /\ UNCHANGED memoryFile

\* the rest of addCommandToHistory, and the return or the catch of the memory branch
WriteHistory(t, io) ==
    /\ tasks[t].pc = "writing"
    /\ LET longer == tasks[t].memory.commandHistory + 1
           kept == IF longer > MaxMemoryHistory THEN MaxMemoryHistory ELSE longer
           saved == saveMemoryToFile([tasks[t].memory EXCEPT !.commandHistory = kept], memoryFile, io)
           returned == IF saved.threw
                       THEN Resolved(BranchCatch("memoryOp", tasks[t].commandText, saved.err))
                       ELSE Resolved(BranchReturn("memoryOp", tasks[t].commandText, tasks[t].result))
       IN  /\ memoryFile' = saved.file
           /\ TaskStep(t, [tasks[t] EXCEPT !.pc = "returned", !.outcome = returned, !.memory = Nothing])

NextTasks ==
    \/ \E t \in TaskNames : LET parsed == parseCommand(tasks[t].commandText) IN ReadForSave(t, parsed)
    \/ \E t \in TaskNames, io \in IoFailures : WriteSave(t, io)
    \/ \E t \in TaskNames : ReadForHistory(t)
    \/ \E t \in TaskNames, io \in IoFailures : WriteHistory(t, io)

SpecTasks == InitTasks /\ [][NextTasks]_vars

(***************************************************************************)
(* Two calls of createFile in flight at the same time on one instance of   *)
(* FileOperations.  A call waits twice for the file system, in fs.access   *)
(* and in fs.writeFile; the calls take turns at these two steps.           *)
(***************************************************************************)
\* a call of createFile(filename) that has not looked at the file system yet
NewCreate(filename) == [pc |-> "called", filename |-> filename, result |-> Nothing]

InitCreate ==
    /\ pc = "create"
    /\ entry = "none"
    /\ input = Undefined
    /\ parseResult = Nothing
    /\ securityCheck = Nothing
    /\ spawned = << >>
    /\ execOutcome = Nothing
    /\ subResult = Nothing
    /\ outcome = Nothing
    /\ response = Nothing
    /\ auditLog = << >>
    /\ files \in StartFileSystems
    /\ memoryFile = Nothing
    /\ requests = 0
    /\ calls = << >>
    /\ tasks \in [TaskNames -> {NewCreate(filename) : filename \in CreatedNames}]
    /\ scheduledJobs = << >>
    /\ activeSchedules = << >>
    /\ timers = << >>
    /\ now = 0
    /\ scheduleIdCounter = 1

\* await fs.access(filePath): the call returns when the file is there, and goes on when it is not
AccessCheck(t) ==
    /\ pc = "create"
    /\ tasks[t].pc = "called"
    /\ LET filename == tasks[t].filename
           filePath == PathResolve(WORKING_DIR, filename)
       IN  tasks' = [tasks EXCEPT ![t] =
                        IF Exists(files, filePath)
                        THEN [@ EXCEPT !.pc = "returned",
                                       !.result = [action |-> "Create File",
                                                   result |-> <<"F","i","l","e"," ","'">> \o filename \o <<"'"," ","a","l","r","e","a","d","y"," ","e","x","i","s","t","s"," ","U+274C">>,
                                                   success |-> FALSE, filename |-> filename,
                                                   filePath |-> filePath]]
                        ELSE [@ EXCEPT !.pc = "creating"]]
    /\ UNCHANGED << pc, entry, input, parseResult, securityCheck, spawned, execOutcome, subResult, outcome,
                    response, auditLog, files, memoryFile, requests, calls, schedulerState >>

\* the write with the flag wx: a file made since the check is the error EEXIST
WriteNewFile_Exclusive(t, io) ==
    /\ pc = "create"
    /\ tasks[t].pc = "creating"
    /\ LET filename == tasks[t].filename
           filePath == PathResolve(WORKING_DIR, filename)
           written == IF Exists(files, filePath) THEN Outcome("EEXIST", files)
                      ELSE FsWriteFile(files, filePath, <<>>, io)
       IN  /\ files' = written.fs
           /\ tasks' = [tasks EXCEPT ![t] =
                  [@ EXCEPT !.pc = "returned",
                            !.result = IF written.err = ""
                                       THEN [action |-> "Create File",
                                             result |-> <<"F","i","l","e"," ","'">> \o filename \o <<"'"," ","c","r","e","a","t","e","d"," ","s","u","c","c","e","s","s","f","u","l","l","y"," ","U+2705">>,
                                             success |-> TRUE, filename |-> filename, filePath |-> filePath]
                                       ELSE [action |-> "Create File",
                                             result |-> <<"E","r","r","o","r"," ","c","r","e","a","t","i","n","g"," ","f","i","l","e"," ","'">> \o filename \o <<"'",":"," ">>
                                                            \o ErrorMessage(written.err) \o <<" ","U+274C">>,
                                             success |-> FALSE, filename |-> filename,
                                             error |-> ErrorMessage(written.err)]]]
    /\ UNCHANGED << pc, entry, input, parseResult, securityCheck, spawned, execOutcome, subResult, outcome,
                    response, auditLog, memoryFile, requests, calls, schedulerState >>

\* await fs.writeFile(filePath, '') and the return, or the catch, that follows
WriteNewFile(t, io) ==
    /\ pc = "create"
    /\ tasks[t].pc = "creating"
    /\ LET filename == tasks[t].filename
           filePath == PathResolve(WORKING_DIR, filename)
           written == FsWriteFile(files, filePath, <<>>, io)
       IN  /\ files' = written.fs
           /\ tasks' = [tasks EXCEPT ![t] =
                  [@ EXCEPT !.pc = "returned",
                            !.result = IF written.err = ""
                                       THEN [action |-> "Create File",
                                             result |-> <<"F","i","l","e"," ","'">> \o filename \o <<"'"," ","c","r","e","a","t","e","d"," ","s","u","c","c","e","s","s","f","u","l","l","y"," ","U+2705">>,
                                             success |-> TRUE, filename |-> filename, filePath |-> filePath]
                                       ELSE [action |-> "Create File",
                                             result |-> <<"E","r","r","o","r"," ","c","r","e","a","t","i","n","g"," ","f","i","l","e"," ","'">> \o filename \o <<"'",":"," ">>
                                                            \o ErrorMessage(written.err) \o <<" ","U+274C">>,
                                             success |-> FALSE, filename |-> filename,
                                             error |-> ErrorMessage(written.err)]]]
    /\ UNCHANGED << pc, entry, input, parseResult, securityCheck, spawned, execOutcome, subResult, outcome,
                    response, auditLog, memoryFile, requests, calls, schedulerState >>

NextCreate ==
    \/ \E t \in TaskNames : AccessCheck(t)
    \/ \E t \in TaskNames, io \in IoFailures : WriteNewFile(t, io)

SpecCreate == InitCreate /\ [][NextCreate]_vars

(***************************************************************************)
(* isPathSafe on its own: the boundary check applied to one path           *)
(***************************************************************************)
\* PROJECT_ROOT of utils/security.js
PROJECT_ROOT == HomeDir \o << <<"D","e","s","k","t","o","p">>, <<"V","O","I","C","E","-","C","M","D">> >>

\* s.startsWith(prefix)
StartsWith(s, prefix) == HasAt(s, 1, prefix)

\* security.isPathSafe(userPath)
isPathSafe(userPath) ==
    IF ~Truthy(userPath) \/ ~IsString(userPath)
    THEN [safe |-> FALSE, reason |-> <<"I","n","v","a","l","i","d"," ","p","a","t","h"," ","f","o","r","m","a","t">>, blocked |-> TRUE]
    ELSE LET resolvedPath == PathText(PathResolve(PROJECT_ROOT, userPath))
             isWithinProject == StartsWith(resolvedPath, PathText(PROJECT_ROOT))
         IN  IF ~isWithinProject
             THEN [safe |-> FALSE,
                   reason |-> <<"P","a","t","h"," ","\"">> \o userPath \o <<"\""," ","i","s"," ","o","u","t","s","i","d","e"," ","p","r","o","j","e","c","t"," ","d","i","r","e","c","t","o","r","y">>,
                   blocked |-> TRUE, resolvedPath |-> resolvedPath, projectRoot |-> PathText(PROJECT_ROOT)]
             ELSE [safe |-> TRUE, reason |-> <<"P","a","t","h"," ","i","s"," ","w","i","t","h","i","n"," ","p","r","o","j","e","c","t"," ","b","o","u","n","d","a","r","i","e","s">>, blocked |-> FALSE,
                   resolvedPath |-> resolvedPath]

\* the paths the check is applied to: relative and absolute, with steps up and down
PathSegments == {<<".",".">>, <<".">>, <<"x">>, <<"l","o","g","s">>, <<"V","O","I","C","E","-","C","M","D">>, <<"V","O","I","C","E","-","C","M","D","-","b","a","c","k","u","p">>, <<"V","O","I","C","E">>}

PathInputs ==
    PathSegments
        \cup {a \o <<"/">> \o b : a, b \in PathSegments}
        \cup {<<".",".","/">> \o a \o <<"/">> \o b : a, b \in PathSegments}
        \cup {<<"/">> \o a : a \in PathSegments}
        \cup {PathText(PROJECT_ROOT) \o tail : tail \in {<<>>, <<"/">>, <<"/","x">>, <<"-","b","a","c","k","u","p","/","x">>, <<"/",".",".","/","x">>, <<"/",".",".","/","V","O","I","C","E","-","C","M","D","/","x">>}}
        \cup {PathText(HomeDir) \o <<"/","D","e","s","k","t","o","p","/">> \o a : a \in PathSegments}
        \cup {<<>>, Null, Undefined, Num}

InitPath ==
    /\ pc = "path"
    /\ entry = "none"
    /\ input \in PathInputs
    /\ parseResult = Nothing
    /\ securityCheck = Nothing
    /\ spawned = << >>
    /\ execOutcome = Nothing
    /\ subResult = Nothing
    /\ outcome = Nothing
    /\ response = Nothing
    /\ auditLog = << >>
    /\ files = InitialFiles
    /\ memoryFile = Nothing
    /\ requests = 0
    /\ calls = << >>
    /\ tasks = << >>
    /\ scheduledJobs = << >>
    /\ activeSchedules = << >>
    /\ timers = << >>
    /\ now = 0
    /\ scheduleIdCounter = 1

\* security.isPathSafe(userPath)
PathCheck ==
    /\ pc = "path"
    /\ securityCheck' = isPathSafe(input)
    /\ pc' = "pathChecked"
    /\ UNCHANGED << entry, input, parseResult, spawned, execOutcome, subResult, outcome, response,
                    auditLog, files, memoryFile, requests, calls, tasks, schedulerState >>

NextPath == PathCheck

SpecPath == InitPath /\ [][NextPath]_vars

(***************************************************************************)
(* utils/scheduler.js: one schedule, made by scheduleCommand, run by its   *)
(* timer, cancelled by cancelSchedule and armed again by                   *)
(* initializeScheduler after a restart of the server.  A call gives way    *)
(* to the others at each await; tasks holds the calls in flight and       *)
(* response what the last call returned.  The clock counts hours and       *)
(* stands still while a call is in flight.                                 *)
(***************************************************************************)
Hour == 1

Day == 24 * Hour

Week == 7 * Day

\* the last hour of the clock
MaxTime == 4

\* the number of calls of cancelSchedule in one behaviour
MaxCancels == 1

\* the times and repeat values scheduleCommand is called with
ScheduleTimes == {1, 2}

validRepeats == {"once", "daily", "weekly", "hourly"}

\* `schedule_${scheduleIdCounter++}_${Date.now()}`
NewScheduleId(counter) == [counter |-> counter]

\* the ids cancelSchedule is called with: those of the schedules in the file or in the Map
KnownIds == {scheduledJobs[i].id : i \in 1..Len(scheduledJobs)} \cup DOMAIN activeSchedules

SchedulerCalls == {"scheduleCommand", "timer", "cancelSchedule", "initializeScheduler"}

\* a call that is not in flight
Idle == [pc |-> "idle", scheduleId |-> Nothing, schedule |-> Nothing, schedules |-> << >>, isRecurring |-> FALSE]

NoEntries == [id \in {} |-> Nothing]

\* loadSchedules(): the list in the file, the empty list when the file is missing or the read fails
loadSchedules(file, io) == IF io # "" THEN << >> ELSE file

\* saveSchedules(schedules): the file after the call; a failed write is logged and leaves it as it was
saveSchedules(file, schedules, io) == IF io # "" THEN file ELSE schedules

\* schedules.findIndex(s => s.id === scheduleId), 0 for -1
FindIndex(schedules, scheduleId) ==
    LET at == {i \in 1..Len(schedules) : schedules[i].id = scheduleId}
    IN  IF at = {} THEN 0 ELSE Least(at)

parseTimeString(time, at) == IF time <= at THEN time + Day ELSE time

calculateNextExecution(schedule) ==
    IF schedule.repeat = "daily" THEN schedule.nextExecution + Day
    ELSE IF schedule.repeat = "weekly" THEN schedule.nextExecution + Week
    ELSE IF schedule.repeat = "hourly" THEN schedule.nextExecution + Hour
    ELSE schedule.nextExecution

\* setTimeout(callback, delay) or setInterval(callback, delay), called at the hour at
ArmedTimer(schedule, delay, at) ==
    [type |-> IF schedule.repeat = "once" THEN "timeout" ELSE "interval",
     due |-> at + delay, delay |-> delay, schedule |-> schedule]

\* activeSchedules.set(scheduleId, {type, id, schedule})
ActiveEntry(schedule) == [type |-> IF schedule.repeat = "once" THEN "timeout" ELSE "interval"]

\* what the scheduler leaves alone
SchedulerFrame ==
    UNCHANGED << pc, entry, input, parseResult, securityCheck, spawned, execOutcome, subResult, outcome,
                 auditLog, files, memoryFile, calls >>

InitScheduler ==
    /\ pc = "scheduler"
    /\ entry = "none"
    /\ input = Undefined
    /\ parseResult = Nothing
    /\ securityCheck = Nothing
    /\ spawned = << >>
    /\ execOutcome = Nothing
    /\ subResult = Nothing
    /\ outcome = Nothing
    /\ response = Nothing
    /\ auditLog = << >>
    /\ files = InitialFiles
    /\ memoryFile = Nothing
    /\ requests = 0
    /\ calls = << >>
    /\ tasks = [c \in SchedulerCalls |-> Idle]
    /\ scheduledJobs = << >>
    /\ activeSchedules = NoEntries
    /\ timers = NoEntries
    /\ now = 0
    /\ scheduleIdCounter = 1

\* scheduleCommand({command, time, repeat}) up to its await of loadSchedules; the file holds one schedule at most
ScheduleCommandCall(time, repeat) ==
    /\ pc = "scheduler"
    /\ tasks["scheduleCommand"].pc = "idle"
    /\ scheduledJobs = << >> /\ scheduleIdCounter = 1
    /\ scheduleIdCounter' = scheduleIdCounter + 1
    /\ LET scheduleId == NewScheduleId(scheduleIdCounter)
           schedule == [id |-> scheduleId, repeat |-> repeat, status |-> "active",
                        nextExecution |-> parseTimeString(time, now)]
       IN  tasks' = [tasks EXCEPT !["scheduleCommand"] =
                        [Idle EXCEPT !.pc = "loading", !.scheduleId = scheduleId, !.schedule = schedule]]
    /\ SchedulerFrame
    /\ UNCHANGED << response, requests, scheduledJobs, activeSchedules, timers, now >>

\* const schedules = await loadSchedules(); schedules.push(schedule)
ScheduleCommandLoad(io) ==
    /\ pc = "scheduler"
    /\ tasks["scheduleCommand"].pc = "loading"
    /\ LET schedule == tasks["scheduleCommand"].schedule
       IN  tasks' = [tasks EXCEPT !["scheduleCommand"] =
                        [@ EXCEPT !.pc = "saving",
                                  !.schedules = Append(loadSchedules(scheduledJobs, io), schedule)]]
    /\ SchedulerFrame
    /\ UNCHANGED << response, requests, schedulerState >>

\* await saveSchedules(schedules), the timer, the entry of the Map and the return
ScheduleCommandSave(io) ==
    /\ pc = "scheduler"
    /\ tasks["scheduleCommand"].pc = "saving"
    /\ LET call == tasks["scheduleCommand"]
           delay == call.schedule.nextExecution - now
       IN  /\ scheduledJobs' = saveSchedules(scheduledJobs, call.schedules, io)
           /\ timers' = Put(timers, call.scheduleId, ArmedTimer(call.schedule, delay, now))
           /\ activeSchedules' = Put(activeSchedules, call.scheduleId, ActiveEntry(call.schedule))
                  /\ response' = [success |-> TRUE, scheduleId |-> call.scheduleId, schedule |-> call.schedule]
    /\ tasks' = [tasks EXCEPT !["scheduleCommand"] = Idle]
    /\ SchedulerFrame
    /\ UNCHANGED << requests, now, scheduleIdCounter >>

\* the timer of a schedule fires: executeScheduledCommand up to its await of executeCommand
TimerCallback(scheduleId) ==
    /\ pc = "scheduler"
    /\ scheduleId \in DOMAIN timers
    /\ timers[scheduleId].due <= now
    /\ tasks["timer"].pc = "idle"
    /\ LET timer == timers[scheduleId]
       IN  /\ tasks' = [tasks EXCEPT !["timer"] =
                          [Idle EXCEPT !.pc = "executing", !.scheduleId = scheduleId,
                                       !.schedule = timer.schedule, !.isRecurring = (timer.type = "interval")]]
           /\ timers' = IF timer.type = "interval"
                        THEN Put(timers, scheduleId, [timer EXCEPT !.due = @ + timer.delay])
                        ELSE Remove(timers, scheduleId)
    /\ SchedulerFrame
    /\ UNCHANGED << response, requests, scheduledJobs, activeSchedules, now, scheduleIdCounter >>

\* the command has run and is in the history: on to markScheduleCompleted, or back in the
\* callback of setInterval, where schedule.nextExecution moves on
CommandExecuted ==
    /\ pc = "scheduler"
    /\ tasks["timer"].pc = "executing"
    /\ LET call == tasks["timer"]
           schedule == [call.schedule EXCEPT !.nextExecution = calculateNextExecution(call.schedule)]
       IN  IF call.isRecurring
           THEN /\ tasks' = [tasks EXCEPT !["timer"] = [@ EXCEPT !.pc = "updating", !.schedule = schedule]]
                /\ timers' = IF call.scheduleId \in DOMAIN timers
                             THEN [timers EXCEPT ![call.scheduleId].schedule = schedule]
                             ELSE timers
           ELSE /\ tasks' = [tasks EXCEPT !["timer"] = [@ EXCEPT !.pc = "marking"]]
                /\ timers' = timers
    /\ SchedulerFrame
    /\ UNCHANGED << response, requests, scheduledJobs, activeSchedules, now, scheduleIdCounter >>

\* the callback of setInterval: await loadSchedules() and the new nextExecution
UpdateLoad(io) ==
    /\ pc = "scheduler"
    /\ tasks["timer"].pc = "updating"
    /\ LET call == tasks["timer"]
           schedules == loadSchedules(scheduledJobs, io)
           scheduleIndex == FindIndex(schedules, call.scheduleId)
       IN  tasks' = [tasks EXCEPT !["timer"] =
                        IF scheduleIndex # 0
                        THEN [@ EXCEPT !.pc = "saving",
                                       !.schedules = [schedules EXCEPT ![scheduleIndex].nextExecution =
                                                                           call.schedule.nextExecution]]
                        ELSE Idle]
    /\ SchedulerFrame
    /\ UNCHANGED << response, requests, schedulerState >>

\* the callback of setInterval: await saveSchedules(schedules)
UpdateSave(io) ==
    /\ pc = "scheduler"
    /\ tasks["timer"].pc = "saving"
    /\ scheduledJobs' = saveSchedules(scheduledJobs, tasks["timer"].schedules, io)
    /\ tasks' = [tasks EXCEPT !["timer"] = Idle]
    /\ SchedulerFrame
    /\ UNCHANGED << response, requests, activeSchedules, timers, now, scheduleIdCounter >>

\* markScheduleCompleted(scheduleId): await loadSchedules() and the new status
MarkScheduleCompletedLoad(c, io) ==
    /\ pc = "scheduler"
    /\ tasks[c].pc = "marking"
    /\ LET schedules == loadSchedules(scheduledJobs, io)
           scheduleIndex == FindIndex(schedules, tasks[c].scheduleId)
       IN  tasks' = [tasks EXCEPT ![c] =
                        IF scheduleIndex # 0
                        THEN [@ EXCEPT !.pc = "marked",
                                       !.schedules = [schedules EXCEPT ![scheduleIndex].status = "completed"]]
                        ELSE Idle]
    /\ SchedulerFrame
    /\ UNCHANGED << response, requests, schedulerState >>

\* markScheduleCompleted(scheduleId): await saveSchedules(schedules) and activeSchedules.delete
MarkScheduleCompletedSave(c, io) ==
    /\ pc = "scheduler"
    /\ tasks[c].pc = "marked"
    /\ scheduledJobs' = saveSchedules(scheduledJobs, tasks[c].schedules, io)
    /\ activeSchedules' = Remove(activeSchedules, tasks[c].scheduleId)
    /\ tasks' = [tasks EXCEPT ![c] = Idle]
    /\ SchedulerFrame
    /\ UNCHANGED << response, requests, timers, now, scheduleIdCounter >>

\* cancelSchedule(scheduleId) up to its await of loadSchedules
CancelScheduleCall(scheduleId) ==
    /\ pc = "scheduler"
    /\ tasks["cancelSchedule"].pc = "idle"
    /\ requests < MaxCancels
    /\ requests' = requests + 1
    /\ timers' = IF scheduleId \in DOMAIN activeSchedules THEN Remove(timers, scheduleId) ELSE timers
    /\ activeSchedules' = Remove(activeSchedules, scheduleId)
    /\ tasks' = [tasks EXCEPT !["cancelSchedule"] = [Idle EXCEPT !.pc = "loading", !.scheduleId = scheduleId]]
    /\ SchedulerFrame
    /\ UNCHANGED << response, scheduledJobs, now, scheduleIdCounter >>

\* const schedules = await loadSchedules() and the new status, or the return for an unknown id
CancelScheduleLoad(io) ==
    /\ pc = "scheduler"
    /\ tasks["cancelSchedule"].pc = "loading"
    /\ LET call == tasks["cancelSchedule"]
           schedules == loadSchedules(scheduledJobs, io)
           scheduleIndex == FindIndex(schedules, call.scheduleId)
       IN  IF scheduleIndex # 0
           THEN /\ tasks' = [tasks EXCEPT !["cancelSchedule"] =
                               [@ EXCEPT !.pc = "saving",
                                         !.schedules = [schedules EXCEPT ![scheduleIndex].status = "cancelled"]]]
                /\ response' = response
           ELSE /\ tasks' = [tasks EXCEPT !["cancelSchedule"] = Idle]
                /\ response' = [success |-> FALSE,
                                message |-> [text |-> "not found", scheduleId |-> call.scheduleId],
                                code |-> "E_SCHEDULE_NOT_FOUND"]
    /\ SchedulerFrame
    /\ UNCHANGED << requests, schedulerState >>

\* await saveSchedules(schedules) and the return of success
CancelScheduleSave(io) ==
    /\ pc = "scheduler"
    /\ tasks["cancelSchedule"].pc = "saving"
    /\ LET call == tasks["cancelSchedule"]
       IN  /\ scheduledJobs' = saveSchedules(scheduledJobs, call.schedules, io)
                  /\ response' = [success |-> TRUE,
                           message |-> [text |-> "cancelled successfully", scheduleId |-> call.scheduleId]]
    /\ tasks' = [tasks EXCEPT !["cancelSchedule"] = Idle]
    /\ SchedulerFrame
    /\ UNCHANGED << requests, activeSchedules, timers, now, scheduleIdCounter >>

\* the server stops and starts: the module state is new, the calls in flight and the timers are
\* gone, the file and the output stay, and initializeScheduler runs up to its await of loadSchedules
Restart ==
    /\ pc = "scheduler"
    /\ activeSchedules' = NoEntries
    /\ timers' = NoEntries
    /\ scheduleIdCounter' = 1
    /\ tasks' = [c \in SchedulerCalls |-> IF c = "initializeScheduler" THEN [Idle EXCEPT !.pc = "loading"] ELSE Idle]
    /\ SchedulerFrame
    /\ UNCHANGED << response, requests, scheduledJobs, now >>

\* initializeScheduler: await loadSchedules() and the loop over the schedules, up to the
\* await of markScheduleCompleted for an overdue one-time schedule
InitializeSchedulerLoad(io) ==
    /\ pc = "scheduler"
    /\ tasks["initializeScheduler"].pc = "loading"
    /\ LET schedules == loadSchedules(scheduledJobs, io)
           toArm == {i \in 1..Len(schedules) :
                        schedules[i].status = "active" /\ schedules[i].nextExecution > now}
           overdue == {i \in 1..Len(schedules) :
                        /\ schedules[i].status = "active" /\ schedules[i].nextExecution <= now
                        /\ schedules[i].repeat = "once"}
           armed(i) == ArmedTimer(schedules[i], schedules[i].nextExecution - now, now)
       IN  /\ timers' = [id \in DOMAIN timers \cup {schedules[i].id : i \in toArm} |->
                            IF \E i \in toArm : schedules[i].id = id
                            THEN armed(CHOOSE i \in toArm : schedules[i].id = id)
                            ELSE timers[id]]
           /\ activeSchedules' = [id \in DOMAIN activeSchedules \cup {schedules[i].id : i \in toArm} |->
                                     IF \E i \in toArm : schedules[i].id = id
                                     THEN ActiveEntry(schedules[CHOOSE i \in toArm : schedules[i].id = id])
                                     ELSE activeSchedules[id]]
           /\ tasks' = [tasks EXCEPT !["initializeScheduler"] =
                           IF overdue # {}
                           THEN [Idle EXCEPT !.pc = "marking", !.scheduleId = schedules[Least(overdue)].id]
                           ELSE Idle]
    /\ SchedulerFrame
    /\ UNCHANGED << response, requests, scheduledJobs, now, scheduleIdCounter >>

\* an hour passes: no call is in flight and no timer is due
Tick ==
    /\ pc = "scheduler"
    /\ now < MaxTime
    /\ \A c \in SchedulerCalls : tasks[c].pc = "idle"
    /\ \A id \in DOMAIN timers : timers[id].due > now
    /\ now' = now + 1
    /\ SchedulerFrame
    /\ UNCHANGED << response, requests, tasks, scheduledJobs, activeSchedules, timers, scheduleIdCounter >>

NextScheduler ==
    \/ \E time \in ScheduleTimes, repeat \in validRepeats : ScheduleCommandCall(time, repeat)
    \/ \E io \in IoFailures : ScheduleCommandLoad(io)
    \/ \E io \in IoFailures : ScheduleCommandSave(io)
    \/ \E scheduleId \in DOMAIN timers : TimerCallback(scheduleId)
    \/ CommandExecuted
    \/ \E io \in IoFailures : UpdateLoad(io)
    \/ \E io \in IoFailures : UpdateSave(io)
    \/ \E c \in {"timer", "initializeScheduler"}, io \in IoFailures : MarkScheduleCompletedLoad(c, io)
    \/ \E c \in {"timer", "initializeScheduler"}, io \in IoFailures : MarkScheduleCompletedSave(c, io)
    \/ \E scheduleId \in KnownIds : CancelScheduleCall(scheduleId)
    \/ \E io \in IoFailures : CancelScheduleLoad(io)
    \/ \E io \in IoFailures : CancelScheduleSave(io)
    \/ Restart
    \/ \E io \in IoFailures : InitializeSchedulerLoad(io)
    \/ Tick

SpecScheduler == InitScheduler /\ [][NextScheduler]_vars

(***************************************************************************)
(* Properties                                                              *)
(***************************************************************************)
\* the parser has run and tagged the text t
Classified(t) == "type" \in DOMAIN parseResult /\ parseResult.type = t

\* isCommandSafe has returned its verdict
HasVerdict == "safe" \in DOMAIN securityCheck

\* the sub-executor has returned its result
HasSubResult == "success" \in DOMAIN subResult

\* the callback of exec has run
HasExecOutcome == "error" \in DOMAIN execOutcome

\* executeCommand has resolved or rejected
Settled == "kind" \in DOMAIN outcome

\* a path argument resolves, against the working directory, outside the sandbox root
EscapesRoot(p) == ~InsideRoot(PathResolve(WORKING_DIR, p))

\* what lies outside the sandbox root is as it was at start
OutsideUnchanged ==
    \A p \in DOMAIN files \cup DOMAIN InitialFiles :
        ~InsideRoot(p) => p \in DOMAIN files /\ p \in DOMAIN InitialFiles /\ files[p] = InitialFiles[p]

\* the string contains a denylist literal, letter case ignored
ContainsBlockedLiteral(command) ==
    \E i \in 1..Len(blockedCommands) : Includes(ToLowerCase(command), ToLowerCase(blockedCommands[i]))

\* the string matches a denylist pattern, letter case ignored
MatchesBlockedPattern(command) ==
    \E i \in 1..Len(blockedPatterns) : Test(blockedPatterns[i], command, TRUE)

\* the string contains a chaining operator or substitution syntax
ContainsChainingOrSubstitution(command) ==
    \E t \in {<<"&","&">>, <<"|","|">>, <<";">>, <<"U+0060">>, <<"$","(">>} : Includes(command, t)

\* the first whitespace-delimited token of the string, in lower case
FirstToken(command) ==
    LET t == ToLowerCase(Trim(command))
        ws == {i \in 1..Len(t) : t[i] \in WhiteSpace}
    IN  IF ws = {} THEN t ELSE SubSeq(t, 1, Least(ws) - 1)

\* the suggestion is there and names a command of the allowlist
ListsAllowedCommand(suggestion) ==
    suggestion # Undefined /\ \E i \in 1..Len(allowedCommands) : Includes(suggestion, allowedCommands[i])

\* the words of a command line after the command itself
ArgumentsOf(command) == Tail(SplitOn(Trim(command), " "))

\* the subprocess is started only for the string the policy has just found safe
ExecGatedByPolicy ==
    /\ \A i \in 1..Len(spawned) :
          /\ Classified("shell") /\ spawned[i] = parseResult.command
          /\ HasVerdict /\ securityCheck.safe /\ securityCheck = isCommandSafe(spawned[i])
    /\ (HasVerdict /\ ~securityCheck.safe) =>
          /\ spawned = << >> /\ ~HasExecOutcome
          /\ HasSubResult /\ subResult = BlockedShellResult(parseResult.command, securityCheck)

\* C1: for every text executeCommand receives and the parser tags shell, exec
\* is started only after isCommandSafe returned safe:true for exactly that
\* string; when the verdict is unsafe, exec is never invoked and the call of
\* executeCommand returns a blocked result.
C1_ExecOnlyAfterSafeVerdict ==
    /\ ExecGatedByPolicy
    /\ (Settled /\ HasVerdict /\ ~securityCheck.safe) =>
          /\ outcome.kind = "resolved"
          /\ FieldOr(outcome.value, "blocked", FALSE)

\* C2: a file operation with an argument that resolves outside the sandbox
\* root returns success:false, and nothing outside the root is ever created,
\* renamed, overwritten or deleted.
C2_PathConfinement ==
    /\ (Classified("fileOp") /\ HasSubResult
            /\ \E i \in 1..Len(parseResult.args) : EscapesRoot(parseResult.args[i]))
          => ~subResult.success
    /\ OutsideUnchanged

\* C3: a string that contains a denylist literal or matches a denylist
\* pattern, whatever its letter case and the white space around it, gets
\* safe:false from isCommandSafe.
C3_DenylistBlocksAnyCase ==
    (pc = "checked" /\ IsString(input) /\ (ContainsBlockedLiteral(input) \/ MatchesBlockedPattern(input)))
        => ~securityCheck.safe

\* C4: a string that contains &&, ||, ;, a backtick or $( anywhere gets
\* safe:false from isCommandSafe, also when its base command is allowlisted.
C4_ChainingBlocked ==
    (pc = "checked" /\ IsString(input) /\ ContainsChainingOrSubstitution(input))
        => ~securityCheck.safe

\* an allowlisted base command followed by a chained command has been rejected as chaining
C4_Witness ==
    /\ pc = "checked" /\ IsString(input)
    /\ ContainsChainingOrSubstitution(input)
    /\ ArrayIncludes(allowedCommands, FirstToken(input))
    /\ ~ContainsBlockedLiteral(input) /\ ~MatchesBlockedPattern(input)
    /\ ~securityCheck.safe
    /\ securityCheck.reason = <<"C","o","m","m","a","n","d"," ","c","h","a","i","n","i","n","g"," ","n","o","t"," ","a","l","l","o","w","e","d"," ","f","o","r"," ","s","e","c","u","r","i","t","y">>

\* C5 as stated: every string whose base token is not in the allowlist gets
\* safe:false together with a suggestion that lists an allowed command.
C5_SuggestionAlways ==
    (pc = "checked" /\ IsString(input) /\ ~ArrayIncludes(allowedCommands, FirstToken(input)))
        => (~securityCheck.safe /\ ListsAllowedCommand(securityCheck.suggestion))

\* C5: every string whose base token is not in the allowlist gets safe:false;
\* the verdict carries a suggestion that lists an allowed command exactly
\* when the string is not empty and hits neither a denylist literal nor a
\* denylist pattern (the denylist is consulted first and suggests nothing).
C5_SuggestionUnlessDenylisted ==
    (pc = "checked" /\ IsString(input) /\ ~ArrayIncludes(allowedCommands, FirstToken(input)))
        => /\ ~securityCheck.safe
           /\ ListsAllowedCommand(securityCheck.suggestion)
                <=> (/\ Truthy(input)
                     /\ BlockedLiteralHits(ToLowerCase(Trim(input))) = {}
                     /\ BlockedPatternHits(input) = {})

\* a command outside the allowlist and the denylist has been rejected with the suggestion
C5_Witness ==
    /\ pc = "checked" /\ IsString(input) /\ Truthy(Trim(input))
    /\ ~ArrayIncludes(allowedCommands, FirstToken(input))
    /\ ~securityCheck.safe
    /\ securityCheck.suggestion = AllowlistSuggestion

\* C6: no command handed to exec has an argument that resolves outside the
\* sandbox root.
C6_ShellStaysInsideRoot ==
    \A i \in 1..Len(spawned) :
        \A j \in 1..Len(ArgumentsOf(spawned[i])) : ~EscapesRoot(ArgumentsOf(spawned[i])[j])

\* C7: executeCommand never rejects: whatever the input and whatever fails
\* (the parser, the memory collaborator, a file operation, the policy check,
\* the subprocess, the history write), it resolves to a result, with
\* success:false unless nothing failed, and an exception no branch handles
\* gives the code E_SYSTEM_ERROR.
C7_NeverThrows ==
    /\ [](Settled =>
            /\ outcome.kind = "resolved"
            /\ outcome.value.success \in BOOLEAN
            /\ (input = Obj => (~outcome.value.success /\ outcome.value.code = "E_SYSTEM_ERROR"))
            /\ (Classified("error") => (~outcome.value.success /\ outcome.value.code = "E_PARSE_ERROR"))
            /\ outcome.value.success =>
                  /\ HasSubResult /\ subResult.success
                  /\ HasVerdict => securityCheck.safe
                  /\ HasExecOutcome => ~execOutcome.error)
    /\ [][\A io \in IoFailures \ {""} :
            AddCommandToHistory(io) => (outcome'.kind = "resolved" /\ ~outcome'.value.success)]_vars

\* an exception outside every branch has been turned into the E_SYSTEM_ERROR result
C7_Witness ==
    /\ Settled /\ input = Obj
    /\ outcome.kind = "resolved"
    /\ ~outcome.value.success /\ outcome.value.code = "E_SYSTEM_ERROR"

\* C8: for a shell command the policy rejects, the result of executeCommand
\* has success:false and blocked:true, and its text contains "blocked", the
\* reason of the rejection and the suggestion when the policy gave one.
C8_BlockedResultSaysWhy ==
    (Settled /\ HasVerdict /\ ~securityCheck.safe)
        => /\ outcome.kind = "resolved"
           /\ ~outcome.value.success
           /\ FieldOr(outcome.value, "blocked", FALSE)
           /\ Includes(outcome.value.result, <<"b","l","o","c","k","e","d">>)
           /\ Includes(outcome.value.result, securityCheck.reason)
           /\ securityCheck.suggestion # Undefined
                => Includes(outcome.value.result, securityCheck.suggestion)

\* C9: an invocation whose command text is empty after trimming ends in the
\* validation error E_EMPTY_COMMAND, the parser has not run and no
\* subprocess was spawned.
C9_EmptyCommandRejected ==
    (pc = "done" /\ IsString(input) /\ Trim(input) = <<>>)
        => /\ response # Nothing /\ response.code = "E_EMPTY_COMMAND"
           /\ parseResult = Nothing
           /\ spawned = << >>

\* the code the result must carry for each kind of failure of the subprocess
ExpectedFailureCode(kind) ==
    CASE kind = "timeout"    -> "E_COMMAND_TIMEOUT"
      [] kind = "missing"    -> "E_COMMAND_NOT_FOUND"
      [] kind = "permission" -> "E_PERMISSION_DENIED"
      [] kind = "exit"       -> "E_COMMAND_FAILED"

\* C10: when the spawned command fails, the result executeCommand returns
\* carries the code of the kind of failure.
C10_FailureKindReachesCaller ==
    (Settled /\ HasExecOutcome /\ execOutcome.error
            /\ execOutcome.kind \in {"timeout", "missing", "permission", "exit"})
        => /\ outcome.kind = "resolved"
           /\ FieldOr(outcome.value, "code", "none") = ExpectedFailureCode(execOutcome.kind)

\* C11: every shell attempt (blocked, run with success, run with failure)
\* has written exactly one audit record once executeShellCommand has
\* resolved, and still exactly one when the invocation is over.
C11_OneAuditRecordPerAttempt ==
    (HasVerdict /\ pc \in {"history", "returned", "done"}) => Len(auditLog) = 1

\* the last call of a FileOperations method was fn
Called(fn) == Classified("fileOp") /\ parseResult.fn = fn

\* the path the i-th argument of the last call resolves to
Target(i) == PathResolve(WORKING_DIR, parseResult.args[i])

\* C12: createFile(name) for a name that exists returns success:false with
\* a message containing "already exists", and leaves the file system, the
\* content of the existing file included, as it was.
C12_CreateExistingFails ==
    [][\A filename \in CreatedNames, io \in IoFailures :
          (CreateFileCall(filename, io) /\ Exists(files, PathResolve(WORKING_DIR, filename)))
              => /\ ~subResult'.success
                 /\ Includes(subResult'.result, <<"a","l","r","e","a","d","y"," ","e","x","i","s","t","s">>)
                 /\ files' = files]_vars

\* createFile has been refused for a file that has content, and the content is still there
C12_Witness ==
    /\ pc = "files" /\ Called("createFile")
    /\ ~subResult.success /\ Includes(subResult.result, <<"a","l","r","e","a","d","y"," ","e","x","i","s","t","s">>)
    /\ Exists(files, Target(1)) /\ ~IsDirectory(files, Target(1))
    /\ files[Target(1)].content # <<>>

\* the entries listFiles(".") returns
Listing == listFiles(WORKING_DIR, files, <<".">>).ret.files

\* the listing has an entry of that name
Listed(name) == \E i \in 1..Len(Listing) : Listing[i].name = name

\* the name is one path component, an entry of the working directory itself
PlainName(name) == Len(SplitOn(name, "/")) = 1 /\ name \notin {<<>>, <<".">>, <<".",".">>}

\* C13 as stated: after a successful createFile(name), for whatever name,
\* listFiles(".") has an entry name of type file and size 0; after a
\* successful deleteFile(name) it has no entry name.
C13_RoundTripAnyName ==
    /\ (pc = "files" /\ Called("createFile") /\ subResult.success)
          => \E i \in 1..Len(Listing) :
                Listing[i] = [name |-> parseResult.args[1], type |-> "file", size |-> 0]
    /\ (pc = "files" /\ Called("deleteFile") /\ subResult.success)
          => ~Listed(parseResult.args[1])

\* C13: after a successful createFile(name) for a name without a directory
\* part, listFiles(".") has an entry name of type file and size 0; after a
\* successful deleteFile(name) it has no entry name.
C13_RoundTrip ==
    /\ (pc = "files" /\ Called("createFile") /\ subResult.success /\ PlainName(parseResult.args[1]))
          => \E i \in 1..Len(Listing) :
                Listing[i] = [name |-> parseResult.args[1], type |-> "file", size |-> 0]
    /\ (pc = "files" /\ Called("deleteFile") /\ subResult.success)
          => ~Listed(parseResult.args[1])

\* a file of the working directory has been deleted and is gone from the listing
C13_Witness ==
    /\ pc = "files" /\ Called("deleteFile") /\ subResult.success
    /\ PlainName(parseResult.args[1])
    /\ ~Listed(parseResult.args[1])
    /\ Len(Listing) > 0

\* the source of deleteFile, copyFile or moveFile is missing or is a directory
SourceBad(sourceFilename) ==
    LET sourcePath == PathResolve(WORKING_DIR, sourceFilename)
    IN  ~Exists(files, sourcePath) \/ IsDirectory(files, sourcePath)

\* the call reports failure and leaves every file and directory as it was
Refused == ~subResult'.success /\ files' = files

\* C14: deleteFile, copyFile and moveFile return success:false when the source
\* does not exist or is a directory, copyFile and moveFile return success:false
\* when the path they would write to already exists, and in each of these cases
\* the file system is left as it was: no source or destination is modified.
C14_RefusalsLeaveFilesAlone ==
    [][/\ \A filename \in SourceNames, io \in IoFailures :
             (DeleteFileCall(filename, io) /\ SourceBad(filename)) => Refused
       /\ \A sourceFilename \in SourceNames, destFilename \in FileNames, io \in IoFailures :
             (/\ CopyFileCall(sourceFilename, destFilename, io)
              /\ \/ SourceBad(sourceFilename)
                 \/ Exists(files, PathResolve(WORKING_DIR, destFilename))) => Refused
       /\ \A sourceFilename \in MovedNames, destPath \in MoveTargets, io \in IoFailures :
             (/\ MoveFileCall(sourceFilename, destPath, io)
              /\ \/ SourceBad(sourceFilename)
                 \/ Exists(files, MoveDestination(WORKING_DIR, sourceFilename, destPath))) => Refused]_vars

\* copyFile has refused to write over an existing file whose content differs
\* from the source's, and both files are still there
C14_Witness ==
    /\ pc = "files" /\ Called("copyFile")
    /\ ~subResult.success /\ Includes(subResult.result, <<"a","l","r","e","a","d","y"," ","e","x","i","s","t","s">>)
    /\ Exists(files, Target(1)) /\ ~IsDirectory(files, Target(1))
    /\ Exists(files, Target(2)) /\ ~IsDirectory(files, Target(2))
    /\ files[Target(1)].content # files[Target(2)].content

\* the keys and values of the session's remember commands
SessionKeys == {<<"k">>, <<"j">>, <<"r","e","m","e","m","b","e","r"," ","k">>}

SessionValues == {<<"v">>, <<"w">>}

\* the last call was "remember K is V" and returned success, and this call is
\* "recall K", during which no write of memory.json fails
RecallFollowsRemember(K, V) ==
    /\ input = <<"r","e","m","e","m","b","e","r"," ">> \o K \o <<" ","i","s"," ">> \o V
    /\ Settled /\ outcome.value.success
    /\ input' = <<"r","e","c","a","l","l"," ">> \o K
    /\ "code" \notin DOMAIN outcome'.value
    /\ subResult'.action # "Memory Operation"

\* C15: when "remember K is V" has returned success and the next command is
\* "recall K", that command returns success and a result text that contains V
\* (stated for the calls during which the history entry is written; a failing
\* write is another way for the recall to report failure).
C15_RecallReturnsRemembered ==
    [][\A K \in SessionKeys, V \in SessionValues :
          RecallFollowsRemember(K, V)
              => outcome'.value.success /\ Includes(outcome'.value.result, V)]_vars

\* parseCommand has been called with a string it does not reject
Parsed == pc = "parser" /\ requests > 0 /\ IsString(input) /\ Truthy(input)

\* the patterns of a table that match the argument of the last call
Matching(patterns) == {i \in 1..Len(patterns) : Test(patterns[i].regex, input, TRUE)}

\* the intent is the one of that pattern
IntentOf(pattern) == parseResult.type = pattern.type /\ parseResult.fn = pattern.fn

\* C16: parseCommand returns the intent of the first memory pattern that
\* matches, in the written order; when no memory pattern matches, the intent of
\* the first file pattern that matches; and a shell intent exactly when no
\* memory and no file pattern matches.
C16_FirstMatchWins ==
    Parsed =>
        LET m == Matching(memoryOpPatterns)
            f == Matching(fileOpPatterns)
        IN  /\ \A i \in m : (\A j \in m : i <= j) => IntentOf(memoryOpPatterns[i])
            /\ m = {} => \A i \in f : (\A j \in f : i <= j) => IntentOf(fileOpPatterns[i])
            /\ parseResult.type = "shell" <=> (m = {} /\ f = {})

\* a command that matches a memory pattern and a file pattern has been
\* classified as the memory operation
C16_Witness ==
    /\ Parsed
    /\ Matching(memoryOpPatterns) # {} /\ Matching(fileOpPatterns) # {}
    /\ parseResult.type = "memoryOp" /\ parseResult.fn = "saveMemory"

\* C17 as stated: parseCommand returns a parse error only when its argument is
\* not a string or is null, and a string that matches no memory and no file
\* pattern is classified as a shell intent.
C17_ErrorOnlyForNonStrings ==
    (pc = "parser" /\ requests > 0) =>
        /\ parseResult.type = "error" => (~IsString(input) \/ input = Null)
        /\ (IsString(input) /\ Matching(memoryOpPatterns) = {} /\ Matching(fileOpPatterns) = {})
               => parseResult.type = "shell"

\* C17: parseCommand returns a parse error only when its argument is not a
\* string, is null or is the empty string, and a string that is not empty and
\* matches no memory and no file pattern is classified as a shell intent.
C17_ErrorOnlyForNonStringsOrEmpty ==
    (pc = "parser" /\ requests > 0) =>
        /\ parseResult.type = "error" => (~IsString(input) \/ input = Null \/ input = <<>>)
        /\ (IsString(input) /\ input # <<>> /\ Matching(memoryOpPatterns) = {} /\ Matching(fileOpPatterns) = {})
               => parseResult.type = "shell"

\* a string of white space only, which no pattern matches, has been classified
\* as a shell intent
C17_Witness ==
    /\ pc = "parser" /\ requests > 0
    /\ IsString(input) /\ input # <<>> /\ Trim(input) = <<>>
    /\ parseResult.type = "shell" /\ parseResult.command = input

\* the words the bindings are stated for
BoundWords == {<<"k">>, <<"v">>, <<"a">>, <<"b">>, <<"r","e","m","e","m","b","e","r">>}

\* the returned intent is fn with these args
Binds(fn, args) == "fn" \in DOMAIN parseResult /\ parseResult.fn = fn /\ parseResult.args = args

\* C18: for "remember X is Y" parseCommand returns saveMemory with args [X, Y],
\* for "remember X" with no " is " in X it returns saveMemory with args
\* [X, "true"], and for "copy file A to B" it returns copyFile with args [A, B].
C18_Bindings ==
    (pc = "parser" /\ requests > 0) =>
        \A X \in BoundWords, Y \in BoundWords :
            /\ input = <<"r","e","m","e","m","b","e","r"," ">> \o X \o <<" ","i","s"," ">> \o Y => Binds("saveMemory", << X, Y >>)
            /\ input = <<"r","e","m","e","m","b","e","r"," ">> \o X => Binds("saveMemory", << X, <<"t","r","u","e">> >>)
            /\ input = <<"c","o","p","y"," ","f","i","l","e"," ">> \o X \o <<" ","t","o"," ">> \o Y => Binds("copyFile", << X, Y >>)

\* the three forms bind what they name when no earlier pattern takes the input
C18_BindingsOfPlainWords ==
    (pc = "parser" /\ requests > 0) =>
        \A X \in BoundWords \ {<<"r","e","m","e","m","b","e","r">>}, Y \in BoundWords :
            /\ input = <<"r","e","m","e","m","b","e","r"," ">> \o X \o <<" ","i","s"," ">> \o Y => Binds("saveMemory", << X, Y >>)
            /\ input = <<"r","e","m","e","m","b","e","r"," ">> \o X => Binds("saveMemory", << X, <<"t","r","u","e">> >>)
            /\ input = <<"c","o","p","y"," ","f","i","l","e"," ">> \o X \o <<" ","t","o"," ">> \o Y => Binds("copyFile", << X, Y >>)

BothSucceeded ==
    /\ pc = "tasks"
    /\ \A t \in TaskNames : tasks[t].pc = "returned" /\ tasks[t].outcome.value.success

\* memory.json holds what the call stored
Stored(t) ==
    /\ memoryFile # Nothing
    /\ HasKey(memoryFile.userData, tasks[t].parseResult.args[1])
    /\ ValueOf(memoryFile.userData, tasks[t].parseResult.args[1]) = tasks[t].parseResult.args[2]

\* C20: when two "remember" commands with different keys run at the same time
\* and both report success, both keys are stored afterwards, however their
\* reads and writes of memory.json interleave.
C20_NoLostUpdate ==
    (BothSucceeded /\ tasks["first"].parseResult.args[1] # tasks["second"].parseResult.args[1])
        => \A t \in TaskNames : Stored(t)

\* POST /command has answered a command that executeCommand reports as succeeded
AnsweredSuccess ==
    /\ pc = "done" /\ entry = "command"
    /\ Settled /\ outcome.kind = "resolved" /\ outcome.value.success

\* C21: for every command that succeeds, the response to POST /command has
\* HTTP status 200 and carries success:true and the action label of the
\* operation that ran.
C21_SuccessResponseCarriesAction ==
    AnsweredSuccess =>
        /\ response.httpStatus = 200
        /\ "success" \in DOMAIN response /\ response.success = TRUE
        /\ "action" \in DOMAIN response /\ response.action = outcome.value.action

\* the call of createFile has returned
Created(t) == pc = "create" /\ tasks[t].pc = "returned"

\* fs.writeFile can write the file at that path: its directory is there
Writable(filePath) ==
    /\ Exists(files, Dirname(filePath)) /\ IsDirectory(files, Dirname(filePath))
    /\ ~(Exists(files, filePath) /\ IsDirectory(files, filePath))

\* C22: overlapping createFile calls are not serialized: once a call has found
\* no file in its pre-check, its write goes ahead and the call returns
\* success:true, also when another call has created the file in between; so
\* two calls for one new name can both return success:true.
C22_WriteFollowsPassedCheck ==
    [][\A t \in TaskNames :
          (WriteNewFile(t, "") /\ Writable(PathResolve(WORKING_DIR, tasks[t].filename)))
              => tasks'[t].result.success]_vars

\* both calls were for the same name, which did not exist, and both have
\* returned success:true
C22_Witness ==
    /\ \A t \in TaskNames : Created(t) /\ tasks[t].result.success
    /\ tasks["first"].filename = tasks["second"].filename
    /\ Exists(files, PathResolve(WORKING_DIR, tasks["first"].filename))

\* moveFile has moved a file to a destination that ends in a path separator
MovedIntoDirectory ==
    /\ pc = "files" /\ Called("moveFile")
    /\ subResult.success /\ EndsWithSeparator(parseResult.args[2])

\* C23: after a successful moveFile(src, dest) with dest ending in a path
\* separator, the source path no longer exists, dest is a directory, and the
\* file is in dest under its original name, the last component of src.
C23_MovedUnderOriginalName ==
    MovedIntoDirectory =>
        LET destDir == PathResolve(WORKING_DIR, parseResult.args[2])
            moved == destDir \o << Basename(Target(1)) >>
        IN  /\ ~Exists(files, Target(1))
            /\ Exists(files, destDir) /\ IsDirectory(files, destDir)
            /\ Exists(files, moved) /\ ~IsDirectory(files, moved)


\* the eleven kinds of the error taxonomy
ErrorTaxonomy ==
    {"E_PARSE_ERROR", "E_EMPTY_COMMAND", "E_COMMAND_BLOCKED", "E_COMMAND_NOT_FOUND", "E_PERMISSION_DENIED",
     "E_COMMAND_TIMEOUT", "E_COMMAND_FAILED", "E_FILE_OPERATION_FAILED", "E_MEMORY_OPERATION_FAILED",
     "E_UNKNOWN_COMMAND", "E_SYSTEM_ERROR"}

\* a failed result that carries a code
FailedWithCode(result) == "success" \in DOMAIN result /\ ~result.success /\ "code" \in DOMAIN result

\* C24: every error code that executeCommand or executeShellCommand attaches to a failed
\* result is one of the eleven kinds of the error taxonomy.
C24_CodesWithinTaxonomy ==
    /\ (outcome # Nothing /\ outcome.kind = "resolved" /\ FailedWithCode(outcome.value))
           => outcome.value.code \in ErrorTaxonomy
    /\ FailedWithCode(subResult) => subResult.code \in ErrorTaxonomy

\* the shell constructs that start or feed another command or write a file
ShellOperators == { <<"|">>, <<"&">>, <<">">>, << "\n" >> }

\* the string holds one of these constructs between its first and last visible character
HasShellOperator(command) == \E op \in ShellOperators : Includes(Trim(command), op)

\* C25: whenever isCommandSafe returns safe:true the string holds no shell construct that
\* starts or feeds another command or writes a file: no pipe, no &, no newline, no >.
C25_AcceptedRunsOneProgram ==
    (pc = "checked" /\ IsString(input) /\ securityCheck.safe) => ~HasShellOperator(input)

\* the resolved path is PROJECT_ROOT itself or a descendant of it
WithinProject(resolved) ==
    Len(resolved) >= Len(PROJECT_ROOT) /\ SubSeq(resolved, 1, Len(PROJECT_ROOT)) = PROJECT_ROOT

\* C26: isPathSafe(p) returns safe:true only when p, resolved against PROJECT_ROOT, is
\* PROJECT_ROOT itself or a descendant of it; a sibling directory whose name starts with
\* the root's name is reported as unsafe.
C26_SafeOnlyInsideRoot ==
    (pc = "pathChecked" /\ securityCheck.safe) => WithinProject(PathResolve(PROJECT_ROOT, input))

\* the file operation has changed the file system, or the subprocess has run to successful completion
OperationTookEffect ==
    \/ Classified("fileOp") /\ parseResult.fn # "listFiles" /\ HasSubResult /\ subResult.success
    \/ Classified("shell") /\ HasExecOutcome /\ ~execOutcome.error

\* C27: executeCommand never returns success:false after the file operation has changed
\* the file system or after the subprocess has run to successful completion, also when
\* recording the command in the memory history fails afterwards.
C27_SuccessFlagAgrees ==
    (Settled /\ outcome.kind = "resolved" /\ OperationTookEffect) => outcome.value.success

\* the ids of the schedules a list holds
IdsIn(schedules) == {schedules[i].id : i \in 1..Len(schedules)}

\* the status a list holds for a schedule, "none" when the list does not hold the schedule
StatusIn(schedules, scheduleId) ==
    LET i == FindIndex(schedules, scheduleId)
    IN  IF i = 0 THEN "none" ELSE schedules[i].status

\* C28: the persisted status of a schedule changes only from active to completed or from
\* active to cancelled; completed and cancelled are terminal under every interleaving of
\* scheduleCommand, the timer callbacks and cancelSchedule.
C28_StatusOnlyLeavesActive ==
    [][\A id \in IdsIn(scheduledJobs) :
          LET before == StatusIn(scheduledJobs, id)
              after == StatusIn(scheduledJobs', id)
          IN  before # after => (before = "active" /\ after \in {"completed", "cancelled"})]_vars

\* cancelSchedule(scheduleId) has returned success
CancelReturned(scheduleId) ==
    /\ "message" \in DOMAIN response /\ response.success
    /\ response.message = [text |-> "cancelled successfully", scheduleId |-> scheduleId]

\* in this step the timer starts the command of the schedule
CommandStarts(scheduleId) ==
    /\ tasks["timer"].pc = "idle"
    /\ tasks'["timer"].pc = "executing" /\ tasks'["timer"].scheduleId = scheduleId

\* C29: after cancelSchedule(id) has returned success the command of schedule id is never
\* started again, under every interleaving and also after a restart of the server.
C29_CancelledNeverRuns ==
    [][\A id \in IdsIn(scheduledJobs) : CancelReturned(id) => ~CommandStarts(id)]_vars

\* C30: every run of a recurring schedule happens at the nextExecution time that is
\* persisted for the schedule: first at the scheduled time, then once per repeat period.
C30_RunsAtPersistedTime ==
    [][\A id \in IdsIn(scheduledJobs) :
          (CommandStarts(id) /\ tasks'["timer"].isRecurring)
              => scheduledJobs[FindIndex(scheduledJobs, id)].nextExecution = now]_vars
====
